---- MODULE Spec2Model ----
(***************************************************************************)
(* A model of the agent-browser interaction pipeline of internet-use:      *)
(*   - the label negotiator   (src/src/agent.rs)                           *)
(*   - the batch job executor (src/src/jobs.rs, src/src/client.rs)         *)
(*   - the interaction memory (src/src/types.rs, src/src/memory.rs)        *)
(* Each subsystem has its own specification over the shared variables; a   *)
(* subsystem's specification leaves the other subsystems' variables alone. *)
(* Text is modelled as a sequence of one-character strings, so that trim   *)
(* and to_lowercase are computed, not assumed.                             *)
(***************************************************************************)
EXTENDS Integers, Sequences, FiniteSets, TLC

VARIABLES
    \* ---- Agent::decide_label / prompt_for_label (agent.rs)
    elements,            \* the &[InteractiveElement] given to decide_label
    max_label_attempts,  \* Agent.max_label_attempts
    pc,                  \* position of the decide_label future
    action,              \* result of infer_action, once known
    filtered,            \* filter_elements(elements, action)
    attempt,             \* loop variable of prompt_for_label
    calls,               \* prompts sent to the completion service, in order
    inflight,            \* number of completion requests awaiting a response
    responses,           \* label responses received by prompt_for_label
    classified,          \* the text the service answered infer_action's prompt with
    raws,                \* the texts the service answered the label prompts with
    result,              \* what decide_label returned
    \* ---- run_all_jobs (jobs.rs)
    jobs,                \* the &[BrowserJob] given to run_all_jobs
    i,                   \* index of the for loop (1-based here)
    bpc,                 \* position of the run_all_jobs future
    started,             \* indices of the jobs whose run() was called, in order
    outcomes,            \* [job, res] of every run() that returned, in order
    ops,                 \* remote-control operations issued by the last run()
    page,                \* how the browser answered the calls of the last run()
    bresult,             \* what run_all_jobs returned
    \* ---- AgentMemory (types.rs and memory.rs)
    module,              \* which AgentMemory this is: "types" or "memory"
    history,             \* AgentMemory.history
    visited_selectors,   \* AgentMemory.visited_selectors (memory.rs only)
    max_entries,         \* AgentMemory.options.max_entries
    panicked,            \* an operation panicked (Vec::remove out of range)
    clock,               \* the local clock read by now(), as a tick count
    pushed,              \* the entries pushed since the memory was last empty
    vecops,              \* the Vec operations of the last add / record, in order
    returned,            \* what the last operation on the memory returned
    json,                \* the document last written by to_json or read by from_json
    exported,            \* the history that `json` serialises, when to_json wrote it
    origin,              \* how the memory was made: "new" or "from_json"
    \* ---- element extraction (dom.rs, client.rs) and its caller (main.rs)
    routine,             \* "dom": extract_interactive_elements, "with_text":
                         \* extract_elements_with_text
    matched,             \* number of elements the script's selection matches
    fault,               \* what goes wrong in this extraction, if anything
    xpc,                 \* position of the extraction
    letterCode,          \* the script's letterCode (getNextLetter)
    labels,              \* the labels the script has assigned, in element order
    executes,            \* number of client.execute(script) calls made
    xresult,             \* what the extraction function returned
    snapshot,            \* the elements the caller goes on with
    \* ---- Agent::plan and its caller (main.rs)
    ppc,                 \* position of main's call of plan
    pcalls,              \* number of completion requests plan has sent
    reply,               \* the response plan received
    presult,             \* what plan returned
    output,              \* the output box of the page: "empty" or "checklist"
    \* ---- tab management (client.rs)
    windows,             \* the browser's window handles, as windows() lists them
    focus,               \* the window the browser's commands act on, 0 if none
    current_tab,         \* the client's field
    nhandles,            \* number of handles the browser has issued
    tlast,               \* the last operation of the client
    targ,                \* its index argument
    tres,                \* its result
    allok,               \* every operation since connect has returned Ok
    \* ---- the interactive driver (main.rs) and its prompt box (js.rs)
    submitted,           \* the data-submitted attribute of the prompt input
    value,               \* the text of the prompt input
    dpc,                 \* position of main in its loop
    npolls,              \* polls made
    nsub,                \* submissions: times Enter was pressed
    nread,               \* polls that returned the prompt
    nplans,              \* calls of agent.plan
    dplan                \* result of the last call of agent.plan

labelVars == <<elements, max_label_attempts, pc, action, filtered, attempt,
               calls, inflight, responses, classified, raws, result>>
batchVars == <<jobs, i, bpc, started, outcomes, ops, page, bresult>>
memVars   == <<module, history, visited_selectors, max_entries, panicked,
               clock, pushed, vecops, returned, json, exported, origin>>
extractVars == <<routine, matched, fault, xpc, letterCode, labels, executes,
                 xresult, snapshot>>
planVars  == <<ppc, pcalls, reply, presult, output>>
tabVars   == <<windows, focus, current_tab, nhandles, tlast, targ, tres,
               allok>>
driverVars == <<submitted, value, dpc, npolls, nsub, nread, nplans, dplan>>
vars      == <<labelVars, batchVars, memVars, extractVars, planVars, tabVars,
               driverVars>>

\* the variables a subsystem's specification leaves alone
notLabel   == <<batchVars, memVars, extractVars, planVars, tabVars,
               driverVars>>
notBatch   == <<labelVars, memVars, extractVars, planVars, tabVars,
               driverVars>>
notMemory  == <<labelVars, batchVars, extractVars, planVars, tabVars,
               driverVars>>
notExtract == <<labelVars, batchVars, memVars, planVars, tabVars,
               driverVars>>
notPlan    == <<labelVars, batchVars, memVars, extractVars, tabVars,
               driverVars>>
notTabs    == <<labelVars, batchVars, memVars, extractVars, planVars,
               driverVars>>
notDriver  == <<labelVars, batchVars, memVars, extractVars, planVars, tabVars>>

-----------------------------------------------------------------------------
(* Bounds of the model *)

MaxElems == 2
MaxAttempts == 3
MaxJobs == 3
MaxCap == 2
MaxClock == 4
MaxN == 3
MaxPage == 27
MaxTabs == 3
MaxHandles == 4
MaxSubmits == 3
MaxPolls == 4

-----------------------------------------------------------------------------
(* Text *)

Upper == <<"A","B","C","D","E","F","G","H","I","J","K","L","M",
           "N","O","P","Q","R","S","T","U","V","W","X","Y","Z">>
Lower == <<"a","b","c","d","e","f","g","h","i","j","k","l","m",
           "n","o","p","q","r","s","t","u","v","w","x","y","z">>
Whitespace == {" ", "\n", "\t"}

RECURSIVE TrimStart(_)
TrimStart(s) ==
    IF s = <<>> THEN s
    ELSE IF Head(s) \in Whitespace THEN TrimStart(Tail(s)) ELSE s

RECURSIVE TrimEnd(_)
TrimEnd(s) ==
    IF s = <<>> THEN s
    ELSE IF s[Len(s)] \in Whitespace THEN TrimEnd(SubSeq(s, 1, Len(s) - 1)) ELSE s

\* str::trim
Trim(s) == TrimEnd(TrimStart(s))

LowerChar(c) ==
    IF \E k \in 1..26 : Upper[k] = c
    THEN Lower[CHOOSE k \in 1..26 : Upper[k] = c]
    ELSE c

\* str::to_lowercase
ToLower(s) == [k \in 1..Len(s) |-> LowerChar(s[k])]

-----------------------------------------------------------------------------
(* Element snapshot: labels (dom.rs, getLabel) *)

RECURSIVE getLabelLoop(_, _)
getLabelLoop(index, label) ==
    IF index >= 0
    THEN getLabelLoop((index \div 26) - 1, <<Upper[(index % 26) + 1]>> \o label)
    ELSE label

getLabel(index) == getLabelLoop(index, <<>>)

ElementType == {"Clickable", "Typable"}

None == [some |-> FALSE, v |-> <<>>]
Some(x) == [some |-> TRUE, v |-> x]

\* The snapshots extract_interactive_elements can return: element k (0-based)
\* carries the label getLabel(k) and one of the two element types.
Snapshots ==
    UNION { { [k \in 1..n |-> [element_type |-> t[k], label |-> Some(getLabel(k - 1))]]
              : t \in [1..n -> ElementType] } : n \in 0..MaxElems }

-----------------------------------------------------------------------------
(* The completion service (Ollama::generate), as seen by Agent::ask *)

Ok(x) == [ok |-> TRUE, v |-> x, err |-> "", n |-> 0]
Err(kind, k) == [ok |-> FALSE, v |-> <<>>, err |-> kind, n |-> k]
Pending == [ok |-> FALSE, v |-> <<>>, err |-> "pending", n |-> 0]

\* Raw texts the service may answer the classification prompt with.
ClassifyTexts ==
    { <<"c","l","i","c","k">>, <<"t","y","p","e">>, <<"C","l","i","c","k">>,
      <<" ","t","y","p","e","\n">>, <<"t","a","p">> }

\* Raw texts the service may answer a label prompt with: every label a snapshot
\* of the model can hold, a padded label, and labels that are not in any snapshot.
LabelTexts ==
    { getLabel(k) : k \in 0..(MaxElems - 1) }
    \cup { <<" ","B","\n">>, <<"Z">>, <<"a">>, <<"[","A","]">> }

\* Agent::ask: Ok(response.trim()) or Err("LLM error: ...")
ask(raw) == IF raw.ok THEN Ok(Trim(raw.v)) ELSE Err("LLMError", 0)

Generate(texts) == { Ok(t) : t \in texts } \cup { Err("transport", 0) }

-----------------------------------------------------------------------------
(* Agent::decide_label, infer_action, filter_elements, prompt_for_label *)

\* HashMap<String, &InteractiveElement> built by filter_map + collect: the
\* elements that carry a label, keyed by it (a later duplicate replaces an earlier).
label_map(els) ==
    LET keys == { els[k].label.v : k \in { j \in 1..Len(els) : els[j].label.some } }
    IN  [ l \in keys |->
            els[CHOOSE k \in 1..Len(els) :
                    /\ els[k].label = Some(l)
                    /\ \A j \in (k + 1)..Len(els) : els[j].label # Some(l)] ]

\* label_map.contains_key(label)
contains_key(els, label) == label \in DOMAIN label_map(els)

\* a slip: no filter, every element is a candidate
filter_elements_all(els, act) == els

\* filter_elements: the elements whose element_type equals the action, in order
filter_elements(els, act) ==
    LET Keep(el) == el.element_type = act IN SelectSeq(els, Keep)

\* a slip: the match without to_lowercase
infer_match_exact(response) ==
    IF response = <<"c","l","i","c","k">> THEN "Clickable"
    ELSE IF response = <<"t","y","p","e">> THEN "Typable"
    ELSE "other"

\* the match of infer_action on response.to_lowercase()
infer_match(response) ==
    LET low == ToLower(response) IN
    IF low = <<"c","l","i","c","k">> THEN "Clickable"
    ELSE IF low = <<"t","y","p","e">> THEN "Typable"
    ELSE "other"

\* a slip: the full menu is sent again on every attempt
prompt_for_menu_again(a, els) ==
    [kind |-> "menu", labels |-> { els[k].label : k \in 1..Len(els) }]

\* the prompt of attempt a: the full menu on attempt 0, the narrowed list after
prompt_for(a, els) ==
    IF a = 0
    THEN [kind |-> "menu", labels |-> { els[k].label : k \in 1..Len(els) }]
    ELSE [kind |-> "narrowed", labels |-> { Some(l) : l \in DOMAIN label_map(els) }]

ClassifyPrompt == [kind |-> "classify", labels |-> {}]

LabelIdle ==
    /\ elements = <<>>
    /\ max_label_attempts = 0
    /\ pc = "off"
    /\ action = "none"
    /\ filtered = <<>>
    /\ attempt = 0
    /\ calls = <<>>
    /\ inflight = 0
    /\ responses = <<>>
    /\ classified = None
    /\ raws = <<>>
    /\ result = Pending

LabelInit ==
    /\ elements \in Snapshots
    /\ max_label_attempts \in 0..MaxAttempts
    /\ pc = "decide_label"
    /\ action = "none"
    /\ filtered = <<>>
    /\ attempt = 0
    /\ calls = <<>>
    /\ inflight = 0
    /\ responses = <<>>
    /\ classified = None
    /\ raws = <<>>
    /\ result = Pending

\* decide_label calls infer_action, which sends its one prompt (self.ask)
InferActionAsk ==
    /\ pc = "decide_label"
    /\ calls' = Append(calls, ClassifyPrompt)
    /\ inflight' = inflight + 1
    /\ pc' = "infer_action"
    /\ UNCHANGED <<elements, max_label_attempts, action, filtered, attempt,
                   responses, classified, raws, result>>

\* a slip: decide_label without its is_empty check
AfterInferNoEmptyCheck(r) ==
    IF ~r.ok THEN [pc |-> "done", action |-> "none", filtered |-> <<>>, result |-> r]
    ELSE LET m == infer_match(r.v) IN
         IF m = "other"
         THEN [pc |-> "done", action |-> "none", filtered |-> <<>>,
               result |-> Err("InvalidAction", 0)]
         ELSE [pc |-> "loop", action |-> m, filtered |-> filter_elements(elements, m),
               result |-> Pending]

\* what decide_label does once infer_action has its answer: `?` on the error,
\* filter_elements, the is_empty check, and the entry into prompt_for_label
AfterInfer(r) ==
    IF ~r.ok THEN [pc |-> "done", action |-> "none", filtered |-> <<>>, result |-> r]
    ELSE LET m == infer_match(r.v) IN
         IF m = "other"
         THEN [pc |-> "done", action |-> "none", filtered |-> <<>>,
               result |-> Err("InvalidAction", 0)]
         ELSE LET f == filter_elements(elements, m) IN
              IF f = <<>>
              THEN [pc |-> "done", action |-> m, filtered |-> f,
                    result |-> Err("NoElements", 0)]
              ELSE [pc |-> "loop", action |-> m, filtered |-> f, result |-> Pending]

InferActionReturn ==
    /\ pc = "infer_action"
    /\ \E raw \in Generate(ClassifyTexts) :
         LET nx == AfterInfer(ask(raw)) IN
         /\ pc' = nx.pc
         /\ action' = nx.action
         /\ filtered' = nx.filtered
         /\ result' = nx.result
         /\ classified' = IF raw.ok THEN Some(raw.v) ELSE None
    /\ inflight' = inflight - 1
    /\ attempt' = 0
    /\ UNCHANGED <<elements, max_label_attempts, calls, responses, raws>>

\* a slip: the body runs once before the count is looked at
loop_continues_do_while(a, max) == a = 0 \/ a < max

\* a slip: an inclusive range, 0..=max_label_attempts
loop_continues_inclusive(a, max) == a <= max

\* for attempt in 0..self.max_label_attempts: the loop goes on
loop_continues(a, max) == a < max

\* one iteration of the loop sends its prompt (self.ask)
LabelAsk ==
    /\ pc = "loop"
    /\ loop_continues(attempt, max_label_attempts)
    /\ calls' = Append(calls, prompt_for(attempt, filtered))
    /\ inflight' = inflight + 1
    /\ pc' = "ask_label"
    /\ UNCHANGED <<elements, max_label_attempts, action, filtered, attempt,
                   responses, classified, raws, result>>

\* a slip: any non-empty answer is taken for a label
accepts_nonempty(els, response) == Trim(response) # <<>>

\* a slip: the label is looked up without regard to case
accepts_any_case(els, response) ==
    \E l \in DOMAIN label_map(els) : ToLower(l) = ToLower(Trim(response))

\* the acceptance test of prompt_for_label on a response of self.ask
accepts(els, response) == contains_key(els, Trim(response))

\* a slip: a failed call is counted as an invalid answer
AfterLabelSwallowsError(r, a) ==
    IF ~r.ok
    THEN [pc |-> "loop", attempt |-> a + 1, result |-> Pending,
          responses |-> responses]
    ELSE IF accepts(filtered, r.v)
    THEN [pc |-> "done", attempt |-> a, result |-> Ok(Trim(r.v)),
          responses |-> Append(responses, Trim(r.v))]
    ELSE [pc |-> "loop", attempt |-> a + 1, result |-> Pending,
          responses |-> Append(responses, Trim(r.v))]

\* a slip: a hit is remembered but the loop goes on asking
AfterLabelKeepsAsking(r, a) ==
    IF ~r.ok
    THEN [pc |-> "done", attempt |-> a, result |-> r, responses |-> responses]
    ELSE [pc |-> "loop", attempt |-> a + 1,
          result |-> IF accepts(filtered, r.v) THEN Ok(Trim(r.v)) ELSE result,
          responses |-> Append(responses, Trim(r.v))]

\* what prompt_for_label does with the answer to attempt a: `?` on the error,
\* return Ok(label) on a hit, log and go on to the next attempt on a miss
AfterLabel(r, a) ==
    IF ~r.ok
    THEN [pc |-> "done", attempt |-> a, result |-> r, responses |-> responses]
    ELSE IF accepts(filtered, r.v)
    THEN [pc |-> "done", attempt |-> a, result |-> Ok(Trim(r.v)),
          responses |-> Append(responses, Trim(r.v))]
    ELSE [pc |-> "loop", attempt |-> a + 1, result |-> Pending,
          responses |-> Append(responses, Trim(r.v))]

LabelReturn ==
    /\ pc = "ask_label"
    /\ inflight' = inflight - 1
    /\ \E raw \in Generate(LabelTexts) :
         LET nx == AfterLabel(ask(raw), attempt) IN
         /\ pc' = nx.pc
         /\ attempt' = nx.attempt
         /\ result' = nx.result
         /\ responses' = nx.responses
         /\ raws' = IF raw.ok THEN Append(raws, raw.v) ELSE raws
    /\ UNCHANGED <<elements, max_label_attempts, action, filtered, calls, classified>>

\* the loop ran out: Err("Agent failed to return a valid label after {} attempts.")
LabelExhausted ==
    /\ pc = "loop"
    /\ ~loop_continues(attempt, max_label_attempts)
    /\ result' = Err("LabelResolution", max_label_attempts)
    /\ pc' = "done"
    /\ UNCHANGED <<elements, max_label_attempts, action, filtered, attempt,
                   calls, inflight, responses, classified, raws>>

-----------------------------------------------------------------------------
(* BrowserJob (jobs.rs) and the BrowserClient operations it runs (client.rs) *)

Navigate(url)       == [kind |-> "Navigate",   arg |-> url,      text |-> ""]
Click(selector)     == [kind |-> "Click",      arg |-> selector, text |-> ""]
Type(selector, txt) == [kind |-> "Type",       arg |-> selector, text |-> txt]
WaitFor(selector)   == [kind |-> "WaitFor",    arg |-> selector, text |-> ""]
ScrollTo(selector)  == [kind |-> "ScrollTo",   arg |-> selector, text |-> ""]
Screenshot(prefix)  == [kind |-> "Screenshot", arg |-> prefix,   text |-> ""]

\* the jobs a batch of the model is made of
JobSet == { Navigate("u1"), Click("s1"), Type("s1", "hi"),
            WaitFor("s2"), ScrollTo("s2"), Screenshot("shot") }

\* What the browser does with the remote-control calls of one run():
\*   log    the execute() of push_browser_log succeeds
\*   found  the first wait().for_element() / querySelector finds the element
\*   found2 the second wait().for_element() of click / send_keys finds it
\*   act    goto / click / send_keys / execute / screenshot succeeds
\*   write  fs::write of the screenshot succeeds
Browser == [log : BOOLEAN, found : BOOLEAN, found2 : BOOLEAN,
            act : BOOLEAN, write : BOOLEAN]

\* a browser that answers every call with success
Responsive == [log |-> TRUE, found |-> TRUE, found2 |-> TRUE, act |-> TRUE,
               write |-> TRUE]

OpErr(msg) == Err("OperationError: " \o msg, 0)
Unit == Ok(<<>>)
Out(res, issued) == [res |-> res, ops |-> issued]

\* BrowserClient::navigate
navigate(url, b) ==
    IF ~b.log THEN Out(OpErr("Failed to push browser log"), <<"execute:log">>)
    ELSE IF ~b.act THEN Out(OpErr("goto"), <<"execute:log", "goto">>)
    ELSE Out(Unit, <<"execute:log", "goto">>)

\* a slip: the click is sent although the element was not located
click_element_unlocated(selector, b) ==
    IF ~b.log THEN Out(OpErr("Failed to push browser log"), <<"execute:log">>)
    ELSE IF ~b.act
    THEN Out(OpErr("Click failed"),
             <<"execute:log", "for_element", "for_element", "click">>)
    ELSE Out(Unit, <<"execute:log", "for_element", "for_element", "click">>)

\* BrowserClient::click_element
click_element(selector, b) ==
    IF ~b.log THEN Out(OpErr("Failed to push browser log"), <<"execute:log">>)
    ELSE IF ~b.found
    THEN Out(OpErr("Page not ready"), <<"execute:log", "for_element">>)
    ELSE IF ~b.found2
    THEN Out(OpErr("Failed to find"), <<"execute:log", "for_element", "for_element">>)
    ELSE IF ~b.act
    THEN Out(OpErr("Click failed"),
             <<"execute:log", "for_element", "for_element", "click">>)
    ELSE Out(Unit, <<"execute:log", "for_element", "for_element", "click">>)

\* BrowserClient::send_keys_to_element
send_keys_to_element(selector, txt, b) ==
    IF ~b.log THEN Out(OpErr("Failed to push browser log"), <<"execute:log">>)
    ELSE IF ~b.found
    THEN Out(OpErr("Page not ready"), <<"execute:log", "for_element">>)
    ELSE IF ~b.found2
    THEN Out(OpErr("Failed to find"), <<"execute:log", "for_element", "for_element">>)
    ELSE IF ~b.act
    THEN Out(OpErr("Send keys failed"),
             <<"execute:log", "for_element", "for_element", "send_keys">>)
    ELSE Out(Unit, <<"execute:log", "for_element", "for_element", "send_keys">>)

\* a slip: the timeout is passed on as an error
wait_for_element_strict(selector, b) ==
    [res |-> IF b.found THEN Unit ELSE OpErr("timeout"), found |-> b.found,
     ops |-> <<"for_element">>]

\* BrowserClient::wait_for_element: Ok(true) when found, Ok(false) on a timeout
wait_for_element(selector, b) ==
    [res |-> Unit, found |-> b.found, ops |-> <<"for_element">>]

\* a slip: the value the page-side routine returned is not looked at
scroll_to_unchecked(selector, b) ==
    IF ~b.log THEN Out(OpErr("Failed to push browser log"), <<"execute:log">>)
    ELSE IF ~b.act THEN Out(OpErr("execute"), <<"execute:log", "execute:scroll">>)
    ELSE Out(Unit, <<"execute:log", "execute:scroll">>)

\* BrowserClient::scroll_to: Ok only when the page-side routine returns true
scroll_to(selector, b) ==
    IF ~b.log THEN Out(OpErr("Failed to push browser log"), <<"execute:log">>)
    ELSE IF ~b.act THEN Out(OpErr("execute"), <<"execute:log", "execute:scroll">>)
    ELSE IF b.found THEN Out(Unit, <<"execute:log", "execute:scroll">>)
    ELSE Out(OpErr("Element not found or failed to scroll"),
             <<"execute:log", "execute:scroll">>)

\* BrowserClient::capture_screenshot
capture_screenshot(prefix, b) ==
    IF ~b.act THEN Out(OpErr("screenshot"), <<"screenshot">>)
    ELSE IF ~b.write THEN Out(OpErr("write"), <<"screenshot">>)
    ELSE Out(Unit, <<"screenshot">>)

\* BrowserJob::run
run(job, b) ==
    CASE job.kind = "Navigate"   -> navigate(job.arg, b)
      [] job.kind = "Click"      -> click_element(job.arg, b)
      [] job.kind = "Type"       -> send_keys_to_element(job.arg, job.text, b)
      [] job.kind = "WaitFor"    ->
            LET w == wait_for_element(job.arg, b) IN Out(w.res, w.ops)
      [] job.kind = "ScrollTo"   -> scroll_to(job.arg, b)
      [] job.kind = "Screenshot" -> capture_screenshot(job.arg, b)

-----------------------------------------------------------------------------
(* run_all_jobs (jobs.rs) *)

RECURSIVE SeqsUpTo(_, _)
\* the sequences over S of length at most n
SeqsUpTo(S, n) ==
    IF n = 0 THEN { <<>> }
    ELSE LET shorter == SeqsUpTo(S, n - 1) IN
         shorter \cup { Append(q, x) : q \in { r \in shorter : Len(r) = n - 1 }, x \in S }

BatchInit ==
    /\ jobs \in SeqsUpTo(JobSet, MaxJobs)
    /\ i = 1
    /\ bpc = "loop"
    /\ started = <<>>
    /\ outcomes = <<>>
    /\ ops = <<>>
    /\ page = Responsive
    /\ bresult = Pending

\* a slip: the loop starts the next job without awaiting the running one
JobStartSpawned ==
    /\ bpc \in { "loop", "run" }
    /\ i <= Len(jobs)
    /\ Len(started) < MaxJobs
    /\ started' = Append(started, i)
    /\ bpc' = "run"
    /\ UNCHANGED <<jobs, i, outcomes, ops, page, bresult>>

\* the loop takes the next job and calls job.run(client)
JobStart ==
    /\ bpc = "loop"
    /\ i <= Len(jobs)
    /\ started' = Append(started, i)
    /\ bpc' = "run"
    /\ UNCHANGED <<jobs, i, outcomes, ops, page, bresult>>

\* a slip: the error is logged and the loop goes on to the next job
AfterRunContinues(res, k) ==
    [bpc |-> "loop", i |-> k + 1, bresult |-> IF res.ok THEN Pending ELSE res]

\* a slip: the loop index advances by two
AfterRunSkips(res, k) ==
    IF ~res.ok THEN [bpc |-> "done", i |-> k, bresult |-> res]
    ELSE [bpc |-> "loop", i |-> k + 2, bresult |-> Pending]

\* the body of the loop once job.run(client) has returned:
\* `if let Err(err) = ... { eprintln!(...); return Err(err); }`
AfterRun(res, k) ==
    IF ~res.ok THEN [bpc |-> "done", i |-> k, bresult |-> res]
    ELSE [bpc |-> "loop", i |-> k + 1, bresult |-> Pending]

\* job.run(client) returns
JobReturn ==
    /\ bpc = "run"
    /\ \E b \in Browser :
         LET o  == run(jobs[i], b)
             nx == AfterRun(o.res, i) IN
         /\ outcomes' = Append(outcomes, [job |-> i, res |-> o.res])
         /\ ops' = o.ops
         /\ page' = b
         /\ bpc' = nx.bpc
         /\ i' = nx.i
         /\ bresult' = nx.bresult
    /\ UNCHANGED <<jobs, started>>

\* the loop is over: Ok(())
BatchDone ==
    /\ bpc = "loop"
    /\ i > Len(jobs)
    /\ bresult' = Unit
    /\ bpc' = "done"
    /\ UNCHANGED <<jobs, i, started, outcomes, ops, page>>

-----------------------------------------------------------------------------
(* AgentMemory: types.rs (add) and memory.rs (record) *)

NoneStr == [some |-> FALSE, v |-> ""]

\* no document has been persisted
NoDoc == [type |-> "absent"]

\* the arguments of MemoryEntry::new in the model: a job and the page url, a
\* tuple variant before any page is open and a struct variant on a page
MemInputs == { << Navigate("u1"), NoneStr >>, << Type("s1", "hi"), Some("u1") >> }

\* the arguments of record in the model: selector, action and page url
RecordInputs == { << "s1", "Click", Some("u1") >>, << "s2", "Type", NoneStr >> }

\* MemoryEntry::new (types.rs): the action is the job's kind name and the
\* selector its url, selector or prefix
MemoryEntry_new(job, page_url, now) ==
    LET as == CASE job.kind = "Navigate"   -> <<"Navigate", Some(job.arg)>>
                [] job.kind = "Click"      -> <<"Click", Some(job.arg)>>
                [] job.kind = "Type"       -> <<"Type", Some(job.arg)>>
                [] job.kind = "WaitFor"    -> <<"WaitFor", Some(job.arg)>>
                [] job.kind = "ScrollTo"   -> <<"ScrollTo", Some(job.arg)>>
                [] job.kind = "Screenshot" -> <<"Screenshot", Some(job.arg)>>
    IN  [timestamp |-> now, page_url |-> page_url, page_title |-> NoneStr,
         dom_snapshot |-> NoneStr, action |-> as[1], selector |-> as[2],
         job |-> job]

\* the MemoryEntry built by record (memory.rs)
RecordEntry(selector, act, page_url, now) ==
    [selector |-> selector, action |-> act, timestamp |-> now, page_url |-> page_url]

\* a slip: add without the eviction
add_never_evicts(h, max, entry) ==
    [history |-> Append(h, entry), panicked |-> FALSE, vecops |-> <<"push">>]

\* a slip: the newest entry is evicted instead of the oldest
add_evicts_newest(h, max, entry) ==
    IF Len(h) >= max
    THEN IF h = <<>>
         THEN [history |-> h, panicked |-> TRUE, vecops |-> <<"remove">>]
         ELSE [history |-> Append(SubSeq(h, 1, Len(h) - 1), entry),
               panicked |-> FALSE, vecops |-> <<"remove", "push">>]
    ELSE [history |-> Append(h, entry), panicked |-> FALSE, vecops |-> <<"push">>]

\* a slip: the entry is inserted at the front
add_prepends(h, max, entry) ==
    IF Len(h) >= max
    THEN IF h = <<>>
         THEN [history |-> h, panicked |-> TRUE, vecops |-> <<"remove">>]
         ELSE [history |-> <<entry>> \o Tail(h), panicked |-> FALSE,
               vecops |-> <<"remove", "push">>]
    ELSE [history |-> <<entry>> \o h, panicked |-> FALSE, vecops |-> <<"push">>]

\* AgentMemory::add (types.rs): if len >= max_entries, remove(0), then push.
\* Vec::remove(0) panics on an empty vector.
add(h, max, entry) ==
    IF Len(h) >= max
    THEN IF h = <<>>
         THEN [history |-> h, panicked |-> TRUE, vecops |-> <<"remove">>]
         ELSE [history |-> Append(Tail(h), entry), panicked |-> FALSE,
               vecops |-> <<"remove", "push">>]
    ELSE [history |-> Append(h, entry), panicked |-> FALSE, vecops |-> <<"push">>]

\* AgentMemory::record (memory.rs): insert the selector, push, then trim the
\* oldest entry (and forget its selector) if the length exceeds max_entries
record(h, visited, max, entry) ==
    LET v1 == visited \cup { entry.selector }
        h1 == Append(h, entry)
    IN  IF Len(h1) > max
        THEN [history |-> Tail(h1), visited_selectors |-> v1 \ { h1[1].selector },
              vecops |-> <<"push", "remove">>]
        ELSE [history |-> h1, visited_selectors |-> v1, vecops |-> <<"push">>]

\* what an operation returning () leaves in `returned`
Returned(op) == [op |-> op, ok |-> TRUE, n |-> 0, v |-> <<>>]

RECURSIVE Rev(_)
\* Iterator::rev over a slice
Rev(s) == IF s = <<>> THEN <<>> ELSE Append(Rev(Tail(s)), Head(s))

\* Iterator::take(n)
Take(s, n) == IF n >= Len(s) THEN s ELSE SubSeq(s, 1, n)

\* a slip: take(n) before rev(): the n oldest entries, reversed
last_n_oldest(h, n) == Rev(Take(h, n))

\* AgentMemory::last_n (types.rs): history.iter().rev().take(n).collect()
last_n(h, n) == Take(Rev(h), n)

\* AgentMemory::all: a view of the history
all(h) == h

\* MemoryOptions::default (types.rs): max_entries
DefaultMaxEntries == 50

\* JSON values, as serde_json reads and writes them
JNull == [type |-> "null"]
JStr(s) == [type |-> "string", v |-> s]
JObj(fields) == [type |-> "object", v |-> fields]
JArr(items) == [type |-> "array", v |-> items]

\* a slip: None is written as the empty string
ser_option_empty(o) == IF o.some THEN JStr(o.v) ELSE JStr("")

\* Serialize for Option<String>: null for None, the string for Some
ser_option(o) == IF o.some THEN JStr(o.v) ELSE JNull

\* Deserialize for a String field of an object: the field must be a string
has_string(o, f) == f \in DOMAIN o /\ o[f].type = "string"

\* Deserialize for an Option<String> field: a missing field and null are None
has_option(o, f) == f \in DOMAIN o => o[f].type \in { "null", "string" }

de_option(o, f) ==
    IF f \in DOMAIN o /\ o[f].type = "string" THEN Some(o[f].v) ELSE NoneStr

\* Serialize for BrowserJob (jobs.rs), externally tagged: a newtype variant is
\* {"Kind": arg}, a struct variant {"Kind": {field: value, ...}}
ser_job(job) ==
    CASE job.kind = "Type" ->
            JObj("Type" :> JObj([selector |-> JStr(job.arg), text |-> JStr(job.text)]))
      [] job.kind = "Screenshot" ->
            JObj("Screenshot" :> JObj([prefix |-> JStr(job.arg)]))
      [] OTHER -> JObj(job.kind :> JStr(job.arg))

\* Deserialize for BrowserJob: an object of one key, a variant name, whose
\* value has the variant's shape
is_job(j) ==
    /\ j.type = "object"
    /\ Cardinality(DOMAIN j.v) = 1
    /\ LET tag == CHOOSE t \in DOMAIN j.v : TRUE
           body == j.v[tag] IN
       CASE tag \in { "Navigate", "Click", "WaitFor", "ScrollTo" } ->
                body.type = "string"
         [] tag = "Type" ->
                body.type = "object" /\ has_string(body.v, "selector")
                    /\ has_string(body.v, "text")
         [] tag = "Screenshot" ->
                body.type = "object" /\ has_string(body.v, "prefix")
         [] OTHER -> FALSE

de_job(j) ==
    LET tag == CHOOSE t \in DOMAIN j.v : TRUE
        body == j.v[tag] IN
    CASE tag = "Navigate" -> Navigate(body.v)
      [] tag = "Click" -> Click(body.v)
      [] tag = "WaitFor" -> WaitFor(body.v)
      [] tag = "ScrollTo" -> ScrollTo(body.v)
      [] tag = "Type" -> Type(body.v.selector.v, body.v.text.v)
      [] tag = "Screenshot" -> Screenshot(body.v.prefix.v)

\* Serialize for MemoryEntry (types.rs)
ser_entry(e) ==
    JObj([timestamp |-> JStr(e.timestamp), page_url |-> ser_option(e.page_url),
          page_title |-> ser_option(e.page_title),
          dom_snapshot |-> ser_option(e.dom_snapshot),
          action |-> JStr(e.action), selector |-> ser_option(e.selector),
          job |-> ser_job(e.job)])

\* Deserialize for MemoryEntry (types.rs)
is_entry(j) ==
    /\ j.type = "object"
    /\ has_string(j.v, "timestamp") /\ has_string(j.v, "action")
    /\ has_option(j.v, "page_url") /\ has_option(j.v, "page_title")
    /\ has_option(j.v, "dom_snapshot") /\ has_option(j.v, "selector")
    /\ "job" \in DOMAIN j.v /\ is_job(j.v.job)

de_entry(j) ==
    [timestamp |-> j.v.timestamp.v, page_url |-> de_option(j.v, "page_url"),
     page_title |-> de_option(j.v, "page_title"),
     dom_snapshot |-> de_option(j.v, "dom_snapshot"),
     action |-> j.v.action.v, selector |-> de_option(j.v, "selector"),
     job |-> de_job(j.v.job)]

\* Serialize for MemoryEntry (memory.rs)
memory_ser_entry(e) ==
    JObj([selector |-> JStr(e.selector), action |-> JStr(e.action),
          timestamp |-> JStr(e.timestamp), page_url |-> ser_option(e.page_url)])

\* Deserialize for MemoryEntry (memory.rs); fields it does not know are skipped
memory_is_entry(j) ==
    /\ j.type = "object"
    /\ has_string(j.v, "selector") /\ has_string(j.v, "action")
    /\ has_string(j.v, "timestamp") /\ has_option(j.v, "page_url")

memory_de_entry(j) ==
    [selector |-> j.v.selector.v, action |-> j.v.action.v,
     timestamp |-> j.v.timestamp.v, page_url |-> de_option(j.v, "page_url")]

\* AgentMemory::to_json (types.rs): the history alone, as an array
to_json(h) == JArr([k \in 1..Len(h) |-> ser_entry(h[k])])

\* AgentMemory::to_json (memory.rs)
memory_to_json(h) == JArr([k \in 1..Len(h) |-> memory_ser_entry(h[k])])

\* what from_json makes: Err, or a memory
FromErr == [ok |-> FALSE, history |-> <<>>, visited_selectors |-> {},
            max_entries |-> 0, vecops |-> <<>>]

\* AgentMemory::from_json (types.rs): the parsed Vec becomes the history as it
\* is, and the options are the default ones
from_json(doc) ==
    IF doc.type = "array" /\ \A k \in 1..Len(doc.v) : is_entry(doc.v[k])
    THEN [ok |-> TRUE, history |-> [k \in 1..Len(doc.v) |-> de_entry(doc.v[k])],
          visited_selectors |-> {}, max_entries |-> DefaultMaxEntries,
          vecops |-> <<>>]
    ELSE FromErr

\* a slip: the import keeps the newest max_entries entries only
memory_from_json_bounded(doc, options) ==
    IF doc.type = "array" /\ \A k \in 1..Len(doc.v) : memory_is_entry(doc.v[k])
    THEN LET parsed == [k \in 1..Len(doc.v) |-> memory_de_entry(doc.v[k])]
             kept == IF Len(parsed) > options
                     THEN SubSeq(parsed, Len(parsed) - options + 1, Len(parsed))
                     ELSE parsed IN
         [ok |-> TRUE, history |-> kept,
          visited_selectors |-> { kept[k].selector : k \in 1..Len(kept) },
          max_entries |-> options, vecops |-> [k \in 1..Len(kept) |-> "push"]]
    ELSE FromErr

\* AgentMemory::from_json (memory.rs): new(options), then every parsed entry
\* is pushed and its selector inserted, with no look at max_entries
memory_from_json(doc, options) ==
    IF doc.type = "array" /\ \A k \in 1..Len(doc.v) : memory_is_entry(doc.v[k])
    THEN LET parsed == [k \in 1..Len(doc.v) |-> memory_de_entry(doc.v[k])] IN
         [ok |-> TRUE, history |-> parsed,
          visited_selectors |-> { parsed[k].selector : k \in 1..Len(parsed) },
          max_entries |-> options, vecops |-> [k \in 1..Len(parsed) |-> "push"]]
    ELSE FromErr

\* documents from_json may be given besides the one to_json wrote: text that
\* is not JSON, JSON of another shape, and a history written by a memory of a
\* capacity above the default one
Malformed == [type |-> "malformed"]
WrongShape == JArr(<< JStr("x") >>)
LongDoc ==
    to_json([k \in 1..(DefaultMaxEntries + 1) |->
                MemoryEntry_new(Navigate("u1"), NoneStr, k - (DefaultMaxEntries + 1) - 1)])
DocSources == { "last", "malformed", "shape", "long" }
Document(src) ==
    CASE src = "last" -> json
      [] src = "malformed" -> Malformed
      [] src = "shape" -> WrongShape
      [] src = "long" -> LongDoc

\* AgentMemory::new(options), of either module
MemInit ==
    /\ module \in { "types", "memory" }
    /\ max_entries \in 0..MaxCap
    /\ history = <<>>
    /\ visited_selectors = {}
    /\ panicked = FALSE
    /\ clock = 0
    /\ pushed = <<>>
    /\ vecops = <<>>
    /\ returned = Returned("new")
    /\ json = NoDoc
    /\ exported = None
    /\ origin = "new"

Add ==
    /\ module = "types"
    /\ ~panicked
    /\ clock < MaxClock
    /\ \E arg \in MemInputs :
         LET entry == MemoryEntry_new(arg[1], arg[2], clock + 1)
             nx    == add(history, max_entries, entry) IN
         /\ history' = nx.history
         /\ panicked' = nx.panicked
         /\ vecops' = nx.vecops
         /\ pushed' = IF nx.panicked THEN pushed ELSE Append(pushed, entry)
    /\ clock' = clock + 1
    /\ returned' = Returned("add")
    /\ UNCHANGED <<module, visited_selectors, max_entries, json, exported, origin>>

Record ==
    /\ module = "memory"
    /\ ~panicked
    /\ clock < MaxClock
    /\ \E arg \in RecordInputs :
         LET entry == RecordEntry(arg[1], arg[2], arg[3], clock + 1)
             nx    == record(history, visited_selectors, max_entries, entry) IN
         /\ history' = nx.history
         /\ visited_selectors' = nx.visited_selectors
         /\ vecops' = nx.vecops
         /\ pushed' = Append(pushed, entry)
    /\ clock' = clock + 1
    /\ returned' = Returned("record")
    /\ UNCHANGED <<module, max_entries, panicked, json, exported, origin>>

\* AgentMemory::clear, of either module
Clear ==
    /\ ~panicked
    /\ history' = <<>>
    /\ visited_selectors' = {}
    /\ pushed' = <<>>
    /\ vecops' = <<>>
    /\ returned' = Returned("clear")
    /\ UNCHANGED <<module, max_entries, panicked, clock, json, exported, origin>>

\* AgentMemory::last_n(n) (types.rs), a query
LastN ==
    /\ module = "types"
    /\ ~panicked
    /\ \E n \in 0..MaxN :
         returned' = [op |-> "last_n", ok |-> TRUE, n |-> n,
                      v |-> last_n(history, n)]
    /\ UNCHANGED <<module, history, visited_selectors, max_entries, panicked,
                   clock, pushed, vecops, json, exported, origin>>

\* AgentMemory::to_json, of either module
ToJson ==
    /\ ~panicked
    /\ json' = IF module = "types" THEN to_json(history) ELSE memory_to_json(history)
    /\ exported' = Some(history)
    /\ returned' = Returned("to_json")
    /\ UNCHANGED <<module, history, visited_selectors, max_entries, panicked,
                   clock, pushed, vecops, origin>>

\* AgentMemory::from_json, of either module: on Ok the memory is the one made
\* from the document, on Err there is no new memory
FromJson ==
    /\ ~panicked
    /\ origin = "new"
    /\ \E src \in DocSources, options \in 0..MaxCap :
         LET doc == Document(src)
             r   == IF module = "types" THEN from_json(doc)
                    ELSE memory_from_json(doc, options) IN
         /\ src = "last" => json.type # "absent"
         /\ json' = doc
         /\ exported' = IF src = "last" THEN exported ELSE None
         /\ returned' = [op |-> "from_json", ok |-> r.ok, n |-> 0, v |-> <<>>]
         /\ IF r.ok
            THEN /\ history' = r.history
                 /\ visited_selectors' = r.visited_selectors
                 /\ max_entries' = r.max_entries
                 /\ pushed' = r.history
                 /\ vecops' = r.vecops
                 /\ origin' = "from_json"
            ELSE UNCHANGED <<history, visited_selectors, max_entries, pushed,
                             vecops, origin>>
    /\ UNCHANGED <<module, panicked, clock>>

-----------------------------------------------------------------------------
(* Element extraction: extract_interactive_elements (dom.rs),               *)
(* extract_elements_with_text (client.rs), and the caller in main.rs        *)

\* String.fromCharCode(code) for the codes of A..Z
fromCharCode(code) == Upper[code - 64]

\* getNextLetter (client.rs): the letter of letterCode, and letterCode moved
\* on by one, back to 65 after 90
getNextLetter(code) ==
    [letter |-> fromCharCode(code),
     letterCode |-> IF code + 1 > 90 THEN 65 ELSE code + 1]

\* the label the script gives the element of enumeration index k (from 0):
\* getLabel(k) in dom.rs, `[${getNextLetter()}]` in client.rs
label_of(r, k, code) ==
    IF r = "dom" THEN getLabel(k)
    ELSE << "[", getNextLetter(code).letter, "]" >>

\* what can go wrong in one extraction: nothing, the page-side routine throws,
\* it returns a value of another shape, or the execute call itself fails
Faults == { "none", "throws", "shape", "transport" }

\* results of the extraction functions: the snapshot, or a BrowserError of a
\* kind with the text it carries ("raw": the diagnostic of the page-side
\* routine or of the driver, "serde": the message of serde_json)
XOk(v) == [ok |-> TRUE, v |-> v, err |-> "", diag |-> ""]
XErr(kind, diag) == [ok |-> FALSE, v |-> <<>>, err |-> kind, diag |-> diag]
XPending == [ok |-> FALSE, v |-> <<>>, err |-> "pending", diag |-> ""]

\* extract_interactive_elements (dom.rs) once execute has returned: a failed
\* execute is an OperationError; the script catches what it throws and returns
\* {error: ...}, which like any other shape fails from_value: OperationError
\* "Invalid JSON: ..."
dom_result(f, ls) ==
    CASE f = "transport" -> XErr("OperationError", "raw")
      [] f = "throws" -> XErr("OperationError", "serde")
      [] f = "shape" -> XErr("OperationError", "serde")
      [] OTHER -> XOk(ls)

\* extract_elements_with_text (client.rs) once execute has returned: a failed
\* execute (the script catches nothing) is a DomExtractionError; a value that
\* does not parse is replaced by the default, the empty vectors
with_text_result(f, ls) ==
    CASE f = "transport" -> XErr("DomExtractionError", "raw")
      [] f = "throws" -> XErr("DomExtractionError", "raw")
      [] f = "shape" -> XOk(<<>>)
      [] OTHER -> XOk(ls)

\* Result::unwrap_or_default in main.rs: an Err becomes the empty Vec
unwrap_or_default(res) == IF res.ok THEN res.v ELSE <<>>

ExtractIdle ==
    /\ routine = "dom"
    /\ matched = 0
    /\ fault = "none"
    /\ xpc = "off"
    /\ letterCode = 65
    /\ labels = <<>>
    /\ executes = 0
    /\ xresult = XPending
    /\ snapshot = None

\* an extraction is called on a page
ExtractInit ==
    /\ routine \in { "dom", "with_text" }
    /\ matched \in 0..MaxPage
    /\ fault \in Faults
    /\ xpc = "call"
    /\ letterCode = 65
    /\ labels = <<>>
    /\ executes = 0
    /\ xresult = XPending
    /\ snapshot = None

\* client.execute(script, vec![]) is sent
Execute ==
    /\ xpc = "call"
    /\ executes' = executes + 1
    /\ xpc' = "script"
    /\ UNCHANGED <<routine, matched, fault, letterCode, labels, xresult, snapshot>>

\* the script labels the next element of its enumeration
LabelElement ==
    /\ xpc = "script"
    /\ fault # "transport"
    /\ Len(labels) < matched
    /\ labels' = Append(labels, label_of(routine, Len(labels), letterCode))
    /\ letterCode' = IF routine = "dom" THEN letterCode
                     ELSE getNextLetter(letterCode).letterCode
    /\ UNCHANGED <<routine, matched, fault, xpc, executes, xresult, snapshot>>

\* execute returns (at once when the call fails, wherever the script throws,
\* and otherwise at the end of the script) and the function returns
ExecuteReturn ==
    /\ xpc = "script"
    /\ fault \in { "transport", "throws" } \/ Len(labels) = matched
    /\ xresult' = IF routine = "dom" THEN dom_result(fault, labels)
                  ELSE with_text_result(fault, labels)
    /\ xpc' = "returned"
    /\ UNCHANGED <<routine, matched, fault, letterCode, labels, executes, snapshot>>

\* main.rs: `.await.unwrap_or_default()`, and the loop goes on to plan
MainUnwrap ==
    /\ xpc = "returned"
    /\ snapshot' = Some(unwrap_or_default(xresult))
    /\ xpc' = "done"
    /\ UNCHANGED <<routine, matched, fault, letterCode, labels, executes, xresult>>

-----------------------------------------------------------------------------
(* Agent::plan, as main.rs calls it. The method is not among the sources;   *)
(* it is modelled from section 4.6 of the specification. What main.rs does  *)
(* with its result is modelled from main.rs.                                *)

\* a response is a sequence of segments: running text, or a fenced code block
\* introduced by a language tag, with its content
TextSeg == [kind |-> "text", doc |-> NoDoc]
Block(doc) == [kind |-> "block", doc |-> doc]

\* a serialized job list, as the parser expects it
JobsDoc == JArr(<< ser_job(Navigate("u1")), ser_job(Type("s1", "hi")) >>)

\* the responses of the model
Replies ==
    << << TextSeg >>,
       << TextSeg, Block(JobsDoc) >>,
       << Block(JobsDoc), TextSeg >>,
       << TextSeg, Block(Malformed) >>,
       << TextSeg, Block(WrongShape), Block(JobsDoc) >>,
       << TextSeg, Block(JArr(<<>>)) >>,
       << >> >>

\* a slip: a response without a code block is taken for an empty job list
parse_plan_lenient(response) ==
    LET blocks == { k \in 1..Len(response) : response[k].kind = "block" } IN
    IF blocks = {} THEN Ok([checklist |-> response, jobs |-> <<>>])
    ELSE LET first == CHOOSE k \in blocks : \A j \in blocks : k <= j
             doc == response[first].doc IN
         IF doc.type = "array" /\ \A k \in 1..Len(doc.v) : is_job(doc.v[k])
         THEN Ok([checklist |-> SubSeq(response, 1, first - 1),
                  jobs |-> [k \in 1..Len(doc.v) |-> de_job(doc.v[k])]])
         ELSE Err("JobParseError", 0)

\* the split of the response: the checklist is what precedes the first code
\* block, whose content is parsed as a job list
parse_plan(response) ==
    LET blocks == { k \in 1..Len(response) : response[k].kind = "block" } IN
    IF blocks = {} THEN Err("MissingJobBlockError", 0)
    ELSE LET first == CHOOSE k \in blocks : \A j \in blocks : k <= j
             doc == response[first].doc IN
         IF doc.type = "array" /\ \A k \in 1..Len(doc.v) : is_job(doc.v[k])
         THEN Ok([checklist |-> SubSeq(response, 1, first - 1),
                  jobs |-> [k \in 1..Len(doc.v) |-> de_job(doc.v[k])]])
         ELSE Err("JobParseError", 0)

PlanIdle ==
    /\ ppc = "off"
    /\ pcalls = 0
    /\ reply = None
    /\ presult = Pending
    /\ output = "empty"

\* main.rs has not reached its call of plan yet
PlanInit ==
    /\ ppc = "wait"
    /\ pcalls = 0
    /\ reply = None
    /\ presult = Pending
    /\ output = "empty"

\* plan builds its one request and sends it
PlanAsk ==
    /\ ppc = "wait"
    /\ xpc = "done"
    /\ pcalls' = pcalls + 1
    /\ ppc' = "ask"
    /\ UNCHANGED <<reply, presult, output>>

\* the completion service answers, and plan returns
PlanReturn ==
    /\ ppc = "ask"
    /\ \/ \E r \in 1..Len(Replies) :
            /\ reply' = Some(Replies[r])
            /\ presult' = parse_plan(Replies[r])
       \/ /\ reply' = None
          /\ presult' = Err("LLMError", 0)
    /\ ppc' = "returned"
    /\ UNCHANGED <<pcalls, output>>

\* main.rs: `if let Ok(plan) = agent.plan(..).await { .. inject_js(..) }`:
\* the checklist is written to the page on Ok, and nothing is done on Err
main_after_plan(res, out) == IF res.ok THEN "checklist" ELSE out

MainAfterPlan ==
    /\ ppc = "returned"
    /\ output' = main_after_plan(presult, output)
    /\ ppc' = "done"
    /\ UNCHANGED <<pcalls, reply, presult>>

-----------------------------------------------------------------------------
(* Tab management (client.rs). The browser's windows are a sequence of      *)
(* handles in the order windows() lists them; the handle of a new window is  *)
(* the next unused number.                                                   *)

\* the browser's windows and focus, and the client's current_tab field
TabState(w, f, c) == [windows |-> w, focus |-> f, current_tab |-> c]

\* handles.first().cloned() and handles.last()
first(handles) == IF handles = <<>> THEN None ELSE Some(handles[1])
last(handles) == IF handles = <<>> THEN None ELSE Some(handles[Len(handles)])

\* the sequence without its element at a 0-based index
Without(s, index) ==
    [k \in 1..(Len(s) - 1) |-> IF k <= index THEN s[k] ELSE s[k + 1]]

\* the result of an operation and the state it leaves
Outcome(st, res) == [st |-> st, res |-> res]

\* the WebDriver commands of the tab operations, any of which may fail
TabFaults == { "none", "log", "execute", "windows", "switch", "close",
               "remaining" }

\* connect: a new session, whose first window becomes the current tab
connect(handles) == TabState(handles, handles[1], first(handles))

\* open_tab: log, window.open, windows(), switch to the last handle
open_tab(fl, st, h) ==
    IF fl = "log" THEN Outcome(st, OpErr("Failed to push browser log"))
    ELSE IF fl = "execute" THEN Outcome(st, OpErr("execute"))
    ELSE LET opened == [st EXCEPT !.windows = Append(st.windows, h)]
             handle == last(opened.windows) IN
         IF fl = "windows" THEN Outcome(opened, OpErr("windows"))
         ELSE IF ~handle.some THEN Outcome(opened, Ok(<<>>))
         ELSE IF fl = "switch" THEN Outcome(opened, OpErr("switch_to_window"))
         ELSE Outcome(TabState(opened.windows, handle.v, Some(handle.v)),
                      Ok(<<>>))

\* switch_tab: log, windows(), switch to handles.get(index)
switch_tab(index, fl, st) ==
    IF fl = "log" THEN Outcome(st, OpErr("Failed to push browser log"))
    ELSE IF fl = "windows" THEN Outcome(st, OpErr("windows"))
    ELSE IF index < Len(st.windows)
    THEN IF fl = "switch" THEN Outcome(st, OpErr("switch_to_window"))
         ELSE Outcome(TabState(st.windows, st.windows[index + 1],
                               Some(st.windows[index + 1])), Ok(<<>>))
    ELSE Outcome(st, OpErr("No tab at index"))

\* a slip: the only remaining tab may be closed
close_tab_unguarded(index, fl, st) ==
    IF fl = "log" THEN Outcome(st, OpErr("Failed to push browser log"))
    ELSE IF fl = "windows" THEN Outcome(st, OpErr("windows"))
    ELSE IF index >= Len(st.windows)
    THEN Outcome(st, OpErr("Tab index out of bounds"))
    ELSE IF fl = "switch" THEN Outcome(st, OpErr("switch_to_window"))
    ELSE LET switched == [st EXCEPT !.focus = st.windows[index + 1]]
             closed == [switched EXCEPT !.windows = Without(st.windows, index),
                                        !.focus = 0] IN
         IF fl = "close" THEN Outcome(switched, OpErr("close_window"))
         ELSE IF fl = "remaining" THEN Outcome(closed, OpErr("windows"))
         ELSE Outcome([closed EXCEPT !.current_tab = first(closed.windows)],
                      Ok(<<>>))

\* close_tab: log, windows(), the two checks, switch to the handle, close the
\* window, windows() again; the first remaining handle is the current tab.
\* The browser is left without a focused window.
close_tab(index, fl, st) ==
    IF fl = "log" THEN Outcome(st, OpErr("Failed to push browser log"))
    ELSE IF fl = "windows" THEN Outcome(st, OpErr("windows"))
    ELSE IF Len(st.windows) <= 1
    THEN Outcome(st, OpErr("Cannot close the only remaining tab"))
    ELSE IF index >= Len(st.windows)
    THEN Outcome(st, OpErr("Tab index out of bounds"))
    ELSE IF fl = "switch" THEN Outcome(st, OpErr("switch_to_window"))
    ELSE LET switched == [st EXCEPT !.focus = st.windows[index + 1]]
             closed == [switched EXCEPT !.windows = Without(st.windows, index),
                                        !.focus = 0] IN
         IF fl = "close" THEN Outcome(switched, OpErr("close_window"))
         ELSE IF fl = "remaining" THEN Outcome(closed, OpErr("windows"))
         ELSE Outcome([closed EXCEPT !.current_tab = first(closed.windows)],
                      Ok(<<>>))

\* the operations of the client that are not tab management
PageOps == { "navigate", "back", "forward", "click_element",
             "send_keys_to_element", "wait_for_element", "scroll_to",
             "capture_screenshot", "extract_elements_with_text" }

\* a slip: navigate makes the first window the current tab
operate_resets(op, failed, popup, st, h) ==
    LET after == IF op = "click_element" /\ popup /\ ~failed
                 THEN [st EXCEPT !.windows = Append(st.windows, h)]
                 ELSE st IN
    Outcome(IF op = "navigate"
            THEN [after EXCEPT !.current_tab = first(after.windows)]
            ELSE after,
            IF failed THEN OpErr("webdriver") ELSE Ok(<<>>))

\* a page operation: it acts on the focused window and assigns no field of
\* the client; a click may make the page open a window
operate(op, failed, popup, st, h) ==
    LET after == IF op = "click_element" /\ popup /\ ~failed
                 THEN [st EXCEPT !.windows = Append(st.windows, h)]
                 ELSE st IN
    Outcome(after, IF failed THEN OpErr("webdriver") ELSE Ok(<<>>))

Tabs == TabState(windows, focus, current_tab)

TabIdle ==
    /\ windows = <<>>
    /\ focus = 0
    /\ current_tab = None
    /\ nhandles = 0
    /\ tlast = "off"
    /\ targ = 0
    /\ tres = Pending
    /\ allok = TRUE

\* the client as connect returns it
TabInit ==
    /\ windows = connect(<<1>>).windows
    /\ focus = connect(<<1>>).focus
    /\ current_tab = connect(<<1>>).current_tab
    /\ nhandles = 1
    /\ tlast = "connect"
    /\ targ = 0
    /\ tres = Ok(<<>>)
    /\ allok = TRUE

\* the operation returned r
TabDone(op, index, r) ==
    /\ windows' = r.st.windows
    /\ focus' = r.st.focus
    /\ current_tab' = r.st.current_tab
    /\ nhandles' = IF Len(r.st.windows) > Len(windows) THEN nhandles + 1
                   ELSE nhandles
    /\ tlast' = op
    /\ targ' = index
    /\ tres' = r.res
    /\ allok' = (allok /\ r.res.ok)

OpenTab ==
    /\ tlast # "off"
    /\ Len(windows) < MaxTabs
    /\ nhandles < MaxHandles
    /\ \E fl \in TabFaults \ { "close", "remaining" } :
        TabDone("open_tab", 0, open_tab(fl, Tabs, nhandles + 1))

SwitchTab ==
    /\ tlast # "off"
    /\ \E index \in 0..MaxTabs, fl \in { "none", "log", "windows", "switch" } :
        TabDone("switch_tab", index, switch_tab(index, fl, Tabs))

CloseTab ==
    /\ tlast # "off"
    /\ \E index \in 0..MaxTabs, fl \in TabFaults \ { "execute" } :
        TabDone("close_tab", index, close_tab(index, fl, Tabs))

Operate ==
    /\ tlast # "off"
    /\ \E op \in PageOps, failed \in BOOLEAN, popup \in BOOLEAN :
        /\ popup => (Len(windows) < MaxTabs /\ nhandles < MaxHandles)
        /\ TabDone(op, 0, operate(op, failed, popup, Tabs, nhandles + 1))

-----------------------------------------------------------------------------
(* The interactive driver: the loop of main (main.rs) and the prompt box of  *)
(* chat_prompt_red_ui (js.rs)                                                *)

\* what the prompt box may hold when Enter is pressed
Prompts == { <<>>, <<" ">>, <<"g","o">> }

\* a slip: the poll reads the prompt and leaves the flag set
poll_script_keeps_flag(flag, text) ==
    IF flag THEN [submitted |-> flag, prompt |-> Some(text)]
    ELSE [submitted |-> flag, prompt |-> None]

\* the script main polls the page with: when data-submitted is "true" it sets
\* it to "false" and returns the input's value, otherwise it returns null
poll_script(flag, text) ==
    IF flag THEN [submitted |-> FALSE, prompt |-> Some(text)]
    ELSE [submitted |-> flag, prompt |-> None]

DriverIdle ==
    /\ submitted = FALSE
    /\ value = <<>>
    /\ dpc = "off"
    /\ npolls = 0
    /\ nsub = 0
    /\ nread = 0
    /\ nplans = 0
    /\ dplan = "none"

\* the page after inject_js(chat_prompt_red_ui()), main at the top of its loop
DriverInit ==
    /\ submitted = FALSE
    /\ value = <<>>
    /\ dpc = "poll"
    /\ npolls = 0
    /\ nsub = 0
    /\ nread = 0
    /\ nplans = 0
    /\ dplan = "none"

\* the user types a prompt and presses Enter: the keydown listener of js.rs
PressEnter ==
    /\ dpc # "off"
    /\ nsub < MaxSubmits
    /\ \E text \in Prompts : value' = text
    /\ submitted' = TRUE
    /\ nsub' = nsub + 1
    /\ UNCHANGED <<dpc, npolls, nread, nplans, dplan>>

\* one poll: execute(script).await.unwrap(), then the two tests on the prompt
Poll ==
    /\ dpc = "poll"
    /\ npolls < MaxPolls
    /\ npolls' = npolls + 1
    /\ \/ /\ dpc' = "panicked"
          /\ UNCHANGED <<submitted, nread>>
       \/ LET r == poll_script(submitted, value) IN
          /\ submitted' = r.submitted
          /\ nread' = IF r.prompt.some THEN nread + 1 ELSE nread
          /\ dpc' = IF r.prompt.some /\ Trim(r.prompt.v) # <<>> THEN "extract"
                    ELSE "sleep"
    /\ UNCHANGED <<value, nsub, nplans, dplan>>

\* the two extractions, whose failures unwrap_or_default hides
DriverExtract ==
    /\ dpc = "extract"
    /\ dpc' = "plan"
    /\ UNCHANGED <<submitted, value, npolls, nsub, nread, nplans, dplan>>

\* agent.plan(..).await: on Ok the checklist is to be written, on Err the
\* body of the `if let` is skipped
DriverPlan ==
    /\ dpc = "plan"
    /\ nplans' = nplans + 1
    /\ \/ dplan' = "Ok" /\ dpc' = "inject"
       \/ dplan' = "Err" /\ dpc' = "sleep"
    /\ UNCHANGED <<submitted, value, npolls, nsub, nread>>

\* client.inject_js(&js_output).await?: its failure ends main
DriverInject ==
    /\ dpc = "inject"
    /\ dpc' \in { "sleep", "ended" }
    /\ UNCHANGED <<submitted, value, npolls, nsub, nread, nplans, dplan>>

\* tokio::time::sleep(500 ms), and the loop starts over
DriverSleep ==
    /\ dpc = "sleep"
    /\ dpc' = "poll"
    /\ UNCHANGED <<submitted, value, npolls, nsub, nread, nplans, dplan>>

-----------------------------------------------------------------------------
(* Idle values of the other subsystems *)

BatchIdle ==
    /\ jobs = <<>>
    /\ i = 1
    /\ bpc = "off"
    /\ started = <<>>
    /\ outcomes = <<>>
    /\ ops = <<>>
    /\ page = Responsive
    /\ bresult = Pending

MemIdle ==
    /\ module = "types"
    /\ history = <<>>
    /\ visited_selectors = {}
    /\ max_entries = 0
    /\ panicked = FALSE
    /\ clock = 0
    /\ pushed = <<>>
    /\ vecops = <<>>
    /\ returned = Returned("new")
    /\ json = NoDoc
    /\ exported = None
    /\ origin = "new"

-----------------------------------------------------------------------------
(* The label negotiator's specification *)

InitLabel == LabelInit /\ BatchIdle /\ MemIdle /\ ExtractIdle /\ PlanIdle /\ TabIdle
    /\ DriverIdle

NextLabel ==
    \/ InferActionAsk /\ UNCHANGED notLabel
    \/ InferActionReturn /\ UNCHANGED notLabel
    \/ LabelAsk /\ UNCHANGED notLabel
    \/ LabelReturn /\ UNCHANGED notLabel
    \/ LabelExhausted /\ UNCHANGED notLabel

SpecLabel == InitLabel /\ [][NextLabel]_vars

\* every call of self.ask returns, and the code between two awaits runs on
SpecLabelFair == SpecLabel /\ WF_vars(NextLabel)

-----------------------------------------------------------------------------
(* The batch executor's specification. run_all_jobs takes the client and the *)
(* jobs only: it has no memory to write to, so the memory stays as created.  *)

InitBatch == BatchInit /\ LabelIdle /\ MemIdle /\ ExtractIdle /\ PlanIdle /\ TabIdle
    /\ DriverIdle

NextBatch ==
    \/ JobStart /\ UNCHANGED notBatch
    \/ JobReturn /\ UNCHANGED notBatch
    \/ BatchDone /\ UNCHANGED notBatch

SpecBatch == InitBatch /\ [][NextBatch]_vars

-----------------------------------------------------------------------------
(* The memory's specification *)

InitMemory == MemInit /\ LabelIdle /\ BatchIdle /\ ExtractIdle /\ PlanIdle /\ TabIdle
    /\ DriverIdle

NextMemory ==
    \/ Add /\ UNCHANGED notMemory
    \/ Record /\ UNCHANGED notMemory
    \/ Clear /\ UNCHANGED notMemory
    \/ LastN /\ UNCHANGED notMemory

SpecMemory == InitMemory /\ [][NextMemory]_vars

-----------------------------------------------------------------------------
(* The memory's specification with persistence: a memory made by new is     *)
(* written out by to_json, and from_json makes the memory of the next run   *)
(* from a document.                                                         *)

InitPersist == MemInit /\ LabelIdle /\ BatchIdle /\ ExtractIdle /\ PlanIdle /\ TabIdle
    /\ DriverIdle

NextPersist ==
    \/ Add /\ UNCHANGED notMemory
    \/ Record /\ UNCHANGED notMemory
    \/ ToJson /\ UNCHANGED notMemory
    \/ FromJson /\ UNCHANGED notMemory

SpecPersist == InitPersist /\ [][NextPersist]_vars

-----------------------------------------------------------------------------
(* The extraction's specification *)

InitExtract == ExtractInit /\ LabelIdle /\ BatchIdle /\ MemIdle /\ PlanIdle /\ TabIdle
    /\ DriverIdle

NextExtract ==
    \/ Execute /\ UNCHANGED notExtract
    \/ LabelElement /\ UNCHANGED notExtract
    \/ ExecuteReturn /\ UNCHANGED notExtract
    \/ MainUnwrap /\ UNCHANGED notExtract

SpecExtract == InitExtract /\ [][NextExtract]_vars

-----------------------------------------------------------------------------
(* The specification of main's loop body: the extraction, then plan *)

InitPlan ==
    ExtractInit /\ PlanInit /\ LabelIdle /\ BatchIdle /\ MemIdle /\ TabIdle
    /\ DriverIdle

NextPlan ==
    \/ Execute /\ UNCHANGED notExtract
    \/ LabelElement /\ UNCHANGED notExtract
    \/ ExecuteReturn /\ UNCHANGED notExtract
    \/ MainUnwrap /\ UNCHANGED notExtract
    \/ PlanAsk /\ UNCHANGED notPlan
    \/ PlanReturn /\ UNCHANGED notPlan
    \/ MainAfterPlan /\ UNCHANGED notPlan

SpecPlan == InitPlan /\ [][NextPlan]_vars

-----------------------------------------------------------------------------
(* The specification of a connected client's tabs *)

InitTabs ==
    TabInit /\ LabelIdle /\ BatchIdle /\ MemIdle /\ ExtractIdle /\ PlanIdle
    /\ DriverIdle

NextTabs ==
    \/ OpenTab /\ UNCHANGED notTabs
    \/ SwitchTab /\ UNCHANGED notTabs
    \/ CloseTab /\ UNCHANGED notTabs
    \/ Operate /\ UNCHANGED notTabs

SpecTabs == InitTabs /\ [][NextTabs]_vars

-----------------------------------------------------------------------------
(* The specification of the agent's calls: a negotiation or a batch *)

InitFlow == InitLabel \/ InitBatch

NextFlow ==
    \/ InferActionAsk /\ UNCHANGED notLabel
    \/ InferActionReturn /\ UNCHANGED notLabel
    \/ LabelAsk /\ UNCHANGED notLabel
    \/ LabelReturn /\ UNCHANGED notLabel
    \/ LabelExhausted /\ UNCHANGED notLabel
    \/ JobStart /\ UNCHANGED notBatch
    \/ JobReturn /\ UNCHANGED notBatch
    \/ BatchDone /\ UNCHANGED notBatch

SpecFlow == InitFlow /\ [][NextFlow]_vars

-----------------------------------------------------------------------------
(* The specification of the interactive driver *)

InitDriver ==
    DriverInit /\ LabelIdle /\ BatchIdle /\ MemIdle /\ ExtractIdle /\ PlanIdle
    /\ TabIdle

NextDriver ==
    \/ PressEnter /\ UNCHANGED notDriver
    \/ Poll /\ UNCHANGED notDriver
    \/ DriverExtract /\ UNCHANGED notDriver
    \/ DriverPlan /\ UNCHANGED notDriver
    \/ DriverInject /\ UNCHANGED notDriver
    \/ DriverSleep /\ UNCHANGED notDriver

SpecDriver == InitDriver /\ [][NextDriver]_vars

-----------------------------------------------------------------------------
(* Properties of the label negotiator *)

\* the prompts prompt_for_label has sent (all but the classification prompt)
LabelCalls == Len(SelectSeq(calls, LAMBDA c : c.kind # "classify"))

\* the label set of a candidate list
LabelsOf(els) == { els[k].label.v : k \in { j \in 1..Len(els) : els[j].label.some } }

\* C1: whenever decide_label / prompt_for_label returns Ok(label), the label
\* is the label of one of the candidates handed to prompt_for_label (and so
\* of one of the elements handed to decide_label), whatever the service said.
C1_ReturnedLabelIsCandidate ==
    (pc = "done" /\ result.ok) =>
        /\ result.v \in LabelsOf(filtered)
        /\ result.v \in LabelsOf(elements)

\* C1 witness: a label was returned after two rejected answers
C1_Witness ==
    /\ pc = "done" /\ result.ok
    /\ Len(responses) = 3
    /\ Len(filtered) < Len(elements)

\* C2: when every answer is an invalid label, prompt_for_label makes exactly
\* max_label_attempts calls and then fails with the label-resolution error that
\* carries max_label_attempts; it returns no label.
C2_ExhaustedAfterMaxCalls ==
    /\ (pc = "done" /\ result.err = "LabelResolution") =>
            /\ LabelCalls = max_label_attempts
            /\ Len(responses) = max_label_attempts
            /\ result.n = max_label_attempts
            /\ ~result.ok
    /\ (/\ pc = "done"
        /\ action # "none" /\ filtered # <<>>
        /\ Len(responses) = LabelCalls
        /\ \A k \in 1..Len(responses) : responses[k] \notin LabelsOf(filtered)) =>
            /\ result = Err("LabelResolution", max_label_attempts)
            /\ LabelCalls = max_label_attempts

\* C2 witness: max_attempts = 3, three invalid answers, the error after 3 calls
C2_Witness ==
    /\ pc = "done" /\ result.err = "LabelResolution"
    /\ max_label_attempts = 3
    /\ LabelCalls = 3
    /\ Len(filtered) = 2

\* C3: a valid answer ends the negotiation at once: a valid answer is always
\* the last one received, it is the returned label, and if it came on attempt
\* k (0-based) exactly k+1 label prompts were sent.
C3_ReturnsOnFirstHit ==
    \A k \in 1..Len(responses) :
        responses[k] \in LabelsOf(filtered) =>
            /\ k = Len(responses)
            /\ pc = "done"
            /\ result = Ok(responses[k])
            /\ attempt = k - 1
            /\ LabelCalls = k
            /\ inflight = 0

\* C3 witness: candidates {A, B}, answers "Z" then "B": "B" after 2 calls
C3_Witness ==
    /\ LabelsOf(filtered) = { <<"A">>, <<"B">> }
    /\ responses = << <<"Z">>, <<"B">> >>
    /\ result = Ok(<<"B">>)
    /\ LabelCalls = 2

\* C4 as stated: when the candidate set is empty, label resolution fails with
\* no completion call made at all.
C4_EmptyFailsBeforeAnyCall ==
    (pc = "done" /\ result.err = "NoElements") => Len(calls) = 0

\* C4 as amended: when no element has the classified category, decide_label
\* fails before prompt_for_label sends any prompt; the one completion call made
\* by then is the classification call of infer_action.
C4_EmptyFailsBeforeAnyLabelCall ==
    (pc = "done" /\ action # "none" /\ filter_elements(elements, action) = <<>>) =>
        /\ result = Err("NoElements", 0)
        /\ LabelCalls = 0
        /\ calls = <<ClassifyPrompt>>
        /\ responses = <<>>

\* C4 witness: decide_label failed on an empty candidate set, once with no
\* element at all
C4_Witness ==
    /\ pc = "done" /\ result.err = "NoElements"
    /\ elements = <<>>
    /\ calls = <<ClassifyPrompt>>

-----------------------------------------------------------------------------
(* Properties of the batch executor *)

\* how many times jobs[k].run() was called
RunsOf(k) == Len(SelectSeq(started, LAMBDA x : x = k))

\* the jobs whose run() returned Ok, in the order they returned
Succeeded == SelectSeq(outcomes, LAMBDA o : o.res.ok)

\* C5 as stated: a job that fails is run again, up to 3 attempts in all,
\* before its failure ends the batch: a batch that ends with a job's error
\* has run that job 3 times.
C5_FailedJobRunThreeTimes ==
    (bpc = "done" /\ ~bresult.ok) => RunsOf(i) = 3

\* C6: a failed run() ends the batch: it is the last run of the batch,
\* run_all_jobs returns exactly its error, and no job at a later position
\* has been or will be started.
C6_AbortOnFailure ==
    /\ \A k \in 1..Len(outcomes) :
          ~outcomes[k].res.ok =>
              /\ k = Len(outcomes)
              /\ bpc = "done"
              /\ bresult = outcomes[k].res
              /\ outcomes[k].job = i
              /\ \A n \in 1..Len(started) : started[n] <= outcomes[k].job
    /\ (bpc = "done" /\ ~bresult.ok) =>
          /\ outcomes # <<>>
          /\ bresult = outcomes[Len(outcomes)].res
          /\ ~ENABLED JobStart

\* C6 witness: a 3-job batch whose job 2 failed; job 3 was never started
C6_Witness ==
    /\ Len(jobs) = 3
    /\ bpc = "done" /\ ~bresult.ok
    /\ started = <<1, 2>>
    /\ outcomes[1].res.ok

\* C7 as stated: when the batch is over, the memory holds one entry per job
\* that succeeded.
C7_OneEntryPerSucceededJob ==
    (bpc = "done") => Len(history) = Len(Succeeded)

C9_SequentialInListOrder ==
    /\ started = [k \in 1..Len(started) |-> k]
    /\ Len(started) - Len(outcomes) \in {0, 1}
    /\ \A k \in 1..Len(outcomes) : outcomes[k].job = started[k]
    /\ \A k \in 2..Len(started) : outcomes[k - 1].res.ok
    /\ Len(started) <= Len(jobs)
    /\ (bpc = "done" /\ bresult.ok) => Len(started) = Len(jobs)

\* C9 witness: the third job is running, the first two have returned Ok
C9_Witness ==
    /\ bpc = "run"
    /\ started = <<1, 2, 3>>
    /\ Len(outcomes) = 2

-----------------------------------------------------------------------------
(* Properties of the memory *)

\* C10: a memory made by new(options) never holds more than max_entries
\* entries, whatever adds (types.rs), records (memory.rs) and clears it has
\* been through.
C10_LengthWithinCapacity == Len(history) <= max_entries

\* C10 witness: a full memory that has been pushed to more often than it holds
C10_Witness ==
    /\ max_entries = MaxCap
    /\ Len(history) = max_entries
    /\ Len(pushed) > max_entries
    /\ ~panicked

\* the entry the step has just pushed
NewEntry == pushed'[Len(pushed')]

\* an add or a record has been called in this step
AddStep == clock' = clock + 1

\* C11 as stated: when the memory holds exactly max_entries entries, one more
\* add / record completes, removes exactly the oldest entry, keeps the others
\* in their order and places the new entry last.
C11_FifoAtCapacity ==
    [][ (AddStep /\ Len(history) = max_entries) =>
            /\ ~panicked'
            /\ history' = SubSeq(history, 2, Len(history)) \o <<NewEntry>> ]_vars

\* C11 as amended: the same, for a capacity of at least 1.
C11_FifoAtCapacityOfOneOrMore ==
    [][ (AddStep /\ Len(history) = max_entries /\ max_entries >= 1) =>
            /\ ~panicked'
            /\ Len(history') = max_entries
            /\ history' = SubSeq(history, 2, Len(history)) \o <<NewEntry>> ]_vars

\* C11 witness (Scenario E): capacity 2, three distinct entries X, Y, Z added
\* in order, and all() is [Y, Z]
C11_Witness ==
    /\ module = "types" /\ max_entries = 2
    /\ Len(pushed) = 3
    /\ Cardinality({ pushed[k] : k \in 1..3 }) = 3
    /\ all(history) = <<pushed[2], pushed[3]>>

\* C12 as stated: add never removes an entry before it has appended the new
\* one: in the Vec operations of one add, every remove comes after a push.
C12_InsertThenEvict ==
    \A k \in 1..Len(vecops) :
        vecops[k] = "remove" => \E j \in 1..(k - 1) : vecops[j] = "push"

\* C13: from an empty memory, after N <= max_entries entries have been added,
\* all() is exactly those N entries in insertion order.
C13_BelowCapacityKeepsAll ==
    (~panicked /\ Len(pushed) <= max_entries) => all(history) = pushed

\* C13 witness: two different entries added to a memory of capacity 2 are
\* both there, in order
C13_Witness ==
    /\ module = "types" /\ max_entries = 2
    /\ Len(pushed) = 2 /\ pushed[1].job # pushed[2].job
    /\ all(history) = pushed

Min(a, b) == IF a <= b THEN a ELSE b

\* C14: last_n(n) returns the min(n, len) most recent entries, most recent
\* first (entry k of the result is entry len - k + 1 of the history);
\* last_n(0) is empty, last_n(n) with n >= len is the whole history reversed;
\* the call leaves the history unchanged.
C14_LastNMostRecentFirst ==
    /\ [](returned.op = "last_n" =>
            LET r == returned.v
                n == returned.n
                len == Len(history) IN
            /\ Len(r) = Min(n, len)
            /\ \A k \in 1..Len(r) : r[k] = history[len - k + 1]
            /\ (n = 0 => r = <<>>)
            /\ (n >= len => Len(r) = len))
    /\ [][returned'.op = "last_n" => history' = history]_vars

\* C14 witness: last_n(1) on a history of two different entries returned the
\* newer one alone
C14_Witness ==
    /\ returned.op = "last_n" /\ returned.n = 1
    /\ Len(history) = 2 /\ history[1].job # history[2].job
    /\ returned.v = <<history[2]>>

-----------------------------------------------------------------------------
(* Properties of the memory's persistence *)

\* C15: a history written by to_json and read back by from_json is the same
\* sequence of entries: same length, same order, every field of every entry
\* equal. It holds of the memory from_json has just made from the document
\* to_json wrote, and of the round trip of every history the memory holds.
C15_RoundTrip ==
    /\ (returned.op = "from_json" /\ exported.some) =>
            /\ returned.ok
            /\ Len(all(history)) = Len(exported.v)
            /\ \A k \in 1..Len(exported.v) : all(history)[k] = exported.v[k]
    /\ LET r == IF module = "types" THEN from_json(to_json(history))
                ELSE memory_from_json(memory_to_json(history), max_entries) IN
        r.ok /\ r.history = history

\* C15 witness: types.rs read back a written history of two entries, one with
\* no page url and one of a Type job
C15_Witness ==
    /\ module = "types"
    /\ returned.op = "from_json" /\ exported.some
    /\ Len(history) = 2
    /\ ~history[1].page_url.some
    /\ history[2].job = Type("s1", "hi")

\* C16: from_json does not look at the capacity: the memory it makes holds
\* every entry of the document, in the document's order, also when they are
\* more than max_entries.
C16_ImportKeepsEverything ==
    (returned.op = "from_json" /\ returned.ok) =>
        /\ Len(all(history)) = Len(json.v)
        /\ \A k \in 1..Len(json.v) :
             /\ all(history)[k].timestamp = json.v[k].v.timestamp.v
             /\ all(history)[k].action = json.v[k].v.action.v
        /\ exported.some => all(history) = exported.v

\* C16 witness: memory.rs imported two entries into a memory of max_entries 1
C16_Witness ==
    /\ module = "memory"
    /\ returned.op = "from_json" /\ returned.ok
    /\ max_entries = 1
    /\ Len(all(history)) = 2
    /\ exported.some

\* C17: the first add (record) after an import of more than max_entries
\* entries brings the history back to at most max_entries entries.
C17_FirstAddAfterImportEnforces ==
    [][ (/\ returned.op = "from_json" /\ returned.ok
         /\ Len(history) > max_entries
         /\ AddStep) => Len(history') <= max_entries' ]_vars

-----------------------------------------------------------------------------
(* Further properties of the label negotiator *)

\* the classification prompts sent so far
ClassifyCalls == Len(SelectSeq(calls, LAMBDA c : c.kind = "classify"))

\* infer_action has returned with an answer of the service
Classified == pc \notin { "decide_label", "infer_action" } /\ classified.some

\* infer_action sends one prompt, the first of all, and never a second one
C18_OneCall ==
    /\ ClassifyCalls <= 1
    /\ pc # "decide_label" => (ClassifyCalls = 1 /\ calls[1] = ClassifyPrompt)
    /\ (pc = "done" /\ action = "none") => calls = <<ClassifyPrompt>>

\* C18 as stated: infer_action makes exactly one completion call and never
\* retries; the answer "click" gives Clickable, the answer "type" gives
\* Typable, and any other answer text gives the invalid-action error.
C18_OnlyTheTwoTokens ==
    /\ C18_OneCall
    /\ Classified =>
         CASE classified.v = <<"c","l","i","c","k">> -> action = "Clickable"
           [] classified.v = <<"t","y","p","e">> -> action = "Typable"
           [] OTHER -> action = "none" /\ result = Err("InvalidAction", 0)

\* C18 as amended: infer_action makes exactly one completion call and never
\* retries; an answer that is "click" once trimmed and lower-cased gives
\* Clickable, one that is "type" gives Typable, and any other answer text gives
\* the invalid-action error.
C18_TokensUpToCaseAndPadding ==
    /\ C18_OneCall
    /\ Classified =>
         CASE ToLower(Trim(classified.v)) = <<"c","l","i","c","k">> ->
                    action = "Clickable"
           [] ToLower(Trim(classified.v)) = <<"t","y","p","e">> ->
                    action = "Typable"
           [] OTHER -> action = "none" /\ result = Err("InvalidAction", 0)

\* C18 witness: the answer "Click" was classified Clickable after one call
C18_Witness ==
    /\ Classified
    /\ classified.v = <<"C","l","i","c","k">>
    /\ action = "Clickable"
    /\ ClassifyCalls = 1

\* the elements of the category infer_action chose
OfCategory == { elements[k] : k \in { j \in 1..Len(elements) :
                                        elements[j].element_type = action } }

\* C19: the candidates decide_label hands to prompt_for_label are exactly the
\* elements of the classified category, in their order, so that a resolved
\* label is the label of an element of that category; with elements
\* {A: Clickable, B: Typable} classified Clickable the candidates are {A} and
\* a first answer "A" is returned after one label prompt.
C19_CandidatesAreTheCategory ==
    (pc \in { "loop", "ask_label", "done" } /\ action # "none") =>
        /\ { filtered[k] : k \in 1..Len(filtered) } = OfCategory
        /\ Len(filtered) = Cardinality(OfCategory)
        /\ \A j, k \in 1..Len(filtered) :
             j < k => \E m, n \in 1..Len(elements) :
                         m < n /\ elements[m] = filtered[j] /\ elements[n] = filtered[k]
        /\ \A k \in 1..Len(calls) :
             calls[k].kind # "classify" =>
                 calls[k].labels = { e.label : e \in OfCategory }
        /\ (pc = "done" /\ result.ok) =>
                \E e \in OfCategory : e.label = Some(result.v)
        /\ (/\ elements = << [element_type |-> "Clickable", label |-> Some(<<"A">>)],
                             [element_type |-> "Typable", label |-> Some(<<"B">>)] >>
            /\ action = "Clickable") =>
                /\ LabelsOf(filtered) = { <<"A">> }
                /\ (responses # <<>> /\ responses[1] = <<"A">>) =>
                        /\ result = Ok(<<"A">>)
                        /\ LabelCalls = 1 /\ attempt = 0

\* C19 witness: {A: Clickable, B: Typable}, classified Clickable, answer "A"
C19_Witness ==
    /\ elements = << [element_type |-> "Clickable", label |-> Some(<<"A">>)],
                     [element_type |-> "Typable", label |-> Some(<<"B">>)] >>
    /\ action = "Clickable"
    /\ filtered = << elements[1] >>
    /\ raws = << <<"A">> >>
    /\ result = Ok(<<"A">>)
    /\ LabelCalls = 1

\* answer k of the service to a label prompt was taken for the label
Accepted(k) == k = Len(raws) /\ pc = "done" /\ result = Ok(Trim(raws[k]))

\* C20: an answer is accepted if and only if, once trimmed, it is equal to a
\* label of the candidates; an answer in another case or in brackets is
\* rejected, and every rejected answer uses up one attempt.
C20_StrictAcceptance ==
    /\ \A k \in 1..Len(raws) :
         /\ Accepted(k) <=> Trim(raws[k]) \in LabelsOf(filtered)
         /\ raws[k] \in { <<"a">>, <<"[","A","]">> } => ~Accepted(k)
    /\ Classified =>
         /\ attempt = Cardinality({ k \in 1..Len(raws) : ~Accepted(k) })
         /\ attempt <= max_label_attempts

\* C20 witness: candidates {A, B}; "a" and "[A]" were rejected and used up
\* attempts 0 and 1, the padded " B\n" was accepted on attempt 2
C20_Witness ==
    /\ LabelsOf(filtered) = { <<"A">>, <<"B">> }
    /\ raws = << <<"a">>, <<"[","A","]">>, <<" ","B","\n">> >>
    /\ result = Ok(<<"B">>)
    /\ attempt = 2

\* the prompts of prompt_for_label, in the order they were sent
LabelPrompts == SelectSeq(calls, LAMBDA c : c.kind # "classify")

\* C21: in one negotiation the first prompt of prompt_for_label (attempt 0) is
\* the full menu and no later one is; every later prompt is the narrowed one
\* that lists the valid labels, and it is sent only when the answer to the
\* prompt just before it was not a valid label.
C21_MenuOnceThenNarrowed ==
    \A j \in 1..Len(LabelPrompts) :
        /\ (j = 1) <=> (LabelPrompts[j].kind = "menu")
        /\ j > 1 =>
             /\ LabelPrompts[j].kind = "narrowed"
             /\ LabelPrompts[j].labels = { Some(l) : l \in LabelsOf(filtered) }
             /\ Len(responses) >= j - 1
             /\ responses[j - 1] \notin LabelsOf(filtered)

\* C21 witness: the menu, then two narrowed prompts after two invalid answers
C21_Witness ==
    /\ Len(LabelPrompts) = 3
    /\ LabelPrompts[1].kind = "menu"
    /\ LabelPrompts[3].kind = "narrowed"
    /\ Len(responses) = 2
    /\ LabelsOf(filtered) # {}

-----------------------------------------------------------------------------
(* Properties of the jobs' remote-control operations *)

\* the job of the last run() that returned, and what it returned
LastJob == jobs[outcomes[Len(outcomes)].job]
LastRes == outcomes[Len(outcomes)].res

\* the texts of the operation errors of the client
OpMessages == { "Failed to push browser log", "goto", "Page not ready",
                "Failed to find", "Click failed", "Send keys failed", "execute",
                "Element not found or failed to scroll", "screenshot", "write" }

\* r is Err(BrowserError::OperationError(..))
IsOperationError(r) == \E m \in OpMessages : r = OpErr(m)

\* C22: a WaitFor job never fails on a timeout: wait_for_element answers a
\* timeout with Ok(false), and run returns Ok(()) for WaitFor whether the
\* element was found or not.
C22_WaitForNeverFails ==
    /\ \A k \in 1..Len(outcomes) :
         jobs[outcomes[k].job].kind = "WaitFor" => outcomes[k].res = Unit
    /\ (outcomes # <<>> /\ LastJob.kind = "WaitFor") =>
         LET w == wait_for_element(LastJob.arg, page) IN
         /\ w.res = Unit
         /\ w.found = page.found
         /\ bresult.ok \/ bresult = Pending

\* C22 witness: a WaitFor job whose wait timed out returned Ok(())
C22_Witness ==
    /\ outcomes # <<>>
    /\ LastJob.kind = "WaitFor"
    /\ ~page.found
    /\ LastRes = Unit

\* C23: a ScrollTo job fails with an operation error whenever its selector
\* resolves to no element, and it succeeds only when the page-side routine
\* ran and reported that it found and scrolled the element.
C23_ScrollToNeedsTheElement ==
    (outcomes # <<>> /\ LastJob.kind = "ScrollTo") =>
        /\ ~page.found => (IsOperationError(LastRes) /\ bresult = LastRes)
        /\ LastRes.ok => (page.log /\ page.act /\ page.found)
        /\ LastRes.ok => ops[Len(ops)] = "execute:scroll"

\* C23 witness: the routine ran and found no element: the operation error
C23_Witness ==
    /\ outcomes # <<>>
    /\ LastJob.kind = "ScrollTo"
    /\ page.log /\ page.act /\ ~page.found
    /\ bresult = OpErr("Element not found or failed to scroll")

\* the positions in ops of a click or of key input
Inputs == { k \in 1..Len(ops) : ops[k] \in { "click", "send_keys" } }

\* C30: a Click or Type job sends its click or its keys only after the
\* element has been located; when locating it fails the job fails with an
\* operation error and neither a click nor key input is sent.
C30_LocateBeforeInput ==
    (outcomes # <<>> /\ LastJob.kind \in { "Click", "Type" }) =>
        /\ \A k \in Inputs :
             /\ k = Len(ops)
             /\ page.found /\ page.found2
             /\ \E j \in 1..(k - 1) : ops[j] = "for_element"
             /\ ops[k] = IF LastJob.kind = "Click" THEN "click" ELSE "send_keys"
        /\ ~(page.found /\ page.found2) =>
             /\ IsOperationError(LastRes)
             /\ bresult = LastRes
             /\ Inputs = {}
        /\ LastRes.ok => Inputs # {}

\* C30 witness: a Click job whose element was not located: two lookups, the
\* operation error, and no click
C30_Witness ==
    /\ outcomes # <<>>
    /\ LastJob.kind = "Click"
    /\ page.log /\ page.found /\ ~page.found2
    /\ ops = << "execute:log", "for_element", "for_element" >>
    /\ bresult = OpErr("Failed to find")

-----------------------------------------------------------------------------
(* Properties of the extraction *)

\* the k-th (from 0) of the letter sequences A..Z, AA, AB, ..
Base26(k) ==
    IF k < 26 THEN << Upper[k + 1] >>
    ELSE << Upper[((k - 26) \div 26) + 1], Upper[((k - 26) % 26) + 1] >>

\* a label without the brackets client.rs puts around it
Letters(l) == IF l[1] = "[" THEN SubSeq(l, 2, Len(l) - 1) ELSE l

\* C24: in one extraction the labels are pairwise distinct and as many as the
\* selected elements, the label of enumeration index i being the i-th of the
\* letter sequences A..Z, AA, AB, ..: distinct indices get distinct labels,
\* also beyond 26 elements.
C24_LabelsDistinctBase26 ==
    /\ Len(labels) <= matched
    /\ (xpc \in { "returned", "done" } /\ fault \in { "none", "shape" }) =>
            Len(labels) = matched
    /\ \A j, k \in 1..Len(labels) : j # k => labels[j] # labels[k]
    /\ \A k \in 1..Len(labels) : Letters(labels[k]) = Base26(k - 1)

\* C25: when the page-side routine throws or returns a value that does not
\* parse, the extraction fails with a DomExtractionError that carries the raw
\* diagnostic, after its one execute call, and the caller is not given an
\* empty or partial snapshot in place of the failure.
C25_FailureIsSurfaced ==
    (xpc \in { "returned", "done" } /\ fault \in { "throws", "shape" }) =>
        /\ xresult = XErr("DomExtractionError", "raw")
        /\ executes = 1
        /\ ~snapshot.some

-----------------------------------------------------------------------------
(* Properties of plan *)

\* plan has returned after a response of the service
Planned == ppc \in { "returned", "done" } /\ reply.some

\* the code blocks of the response
Blocks == { k \in 1..Len(reply.v) : reply.v[k].kind = "block" }

\* the first code block of the response holds a job list
FirstBlockIsJobs ==
    \E k \in Blocks :
        /\ \A j \in Blocks : k <= j
        /\ reply.v[k].doc.type = "array"
        /\ \A m \in 1..Len(reply.v[k].doc.v) : is_job(reply.v[k].doc.v[m])

\* C26: one call of plan sends one completion request and never a second
\* one; a response with no fenced code block makes it fail with
\* MissingJobBlockError and a first code block that is not a job list with
\* JobParseError; in both cases there is no job list, and the caller is
\* handed the failure.
C26_PlanFailsWithoutRetry ==
    /\ pcalls <= 1
    /\ ppc \in { "ask", "returned", "done" } => pcalls = 1
    /\ (Planned /\ Blocks = {}) => presult = Err("MissingJobBlockError", 0)
    /\ (Planned /\ Blocks # {} /\ ~FirstBlockIsJobs) =>
            presult = Err("JobParseError", 0)
    /\ (Planned /\ FirstBlockIsJobs) => presult.ok
    /\ (ppc = "done" /\ ~presult.ok) => (presult.v = <<>> /\ output = "empty")

\* C26 witness: a response without a code block: plan failed after its one
\* request, and main wrote nothing
C26_Witness ==
    /\ ppc = "done"
    /\ reply = Some(<< TextSeg >>)
    /\ presult = Err("MissingJobBlockError", 0)
    /\ pcalls = 1
    /\ output = "empty"

-----------------------------------------------------------------------------
(* Properties of tab management *)

\* C28: current_tab is set by connect and changed only by open_tab,
\* switch_tab and close_tab: every page operation (navigate, back, forward,
\* click_element, send_keys_to_element, wait_for_element, scroll_to,
\* capture_screenshot, the extraction) leaves it as it was.
C28_OnlyTabOperationsSetCurrentTab ==
    /\ tlast = "connect" => current_tab = first(windows)
    /\ [][ /\ current_tab' # current_tab =>
                tlast' \in { "open_tab", "switch_tab", "close_tab" }
           /\ tlast' \in PageOps => current_tab' = current_tab ]_vars

\* C28 witness: a click that opened a window, on a client whose current tab
\* is no longer the one connect found: current_tab is still that tab
C28_Witness ==
    /\ tlast = "click_element"
    /\ tres.ok
    /\ Len(windows) = 3
    /\ current_tab = Some(2)

\* the messages of the tab operations' errors
TabMessages == { "Failed to push browser log", "execute", "windows",
                 "switch_to_window", "close_window", "No tab at index",
                 "Cannot close the only remaining tab",
                 "Tab index out of bounds", "webdriver" }

\* r is Err(BrowserError::OperationError(..))
IsTabError(r) == \E m \in TabMessages : r = OpErr(m)

\* C29: close_tab on a single tab, or with an index that is not below the
\* number of tabs, returns an operation error and closes no window; so there
\* is always at least one tab open.
C29_CloseTabKeepsOneTab ==
    /\ [](tlast # "off" => Len(windows) >= 1)
    /\ [][ (tlast' = "close_tab" /\ (Len(windows) <= 1 \/ targ' >= Len(windows)))
            => (IsTabError(tres') /\ windows' = windows) ]_vars

\* C29 witness: after a tab was opened and one closed, close_tab(0) on the
\* one tab left was refused
C29_Witness ==
    /\ tlast = "close_tab"
    /\ targ = 0
    /\ windows = << 2 >>
    /\ tres = OpErr("Cannot close the only remaining tab")

-----------------------------------------------------------------------------
(* Properties of the flow of control *)

\* the jobs whose run has not returned
Running == Len(started) - Len(outcomes)

\* C27: there is one flow of control: at most one completion request or job
\* run is in flight at any moment, and a request or a run is started only
\* when every earlier one has returned.
C27_SingleFlow ==
    /\ [](inflight \in { 0, 1 } /\ Running \in { 0, 1 } /\ inflight + Running <= 1)
    /\ [][ /\ Len(calls') > Len(calls) => (inflight = 0 /\ inflight' = 1)
           /\ Len(started') > Len(started) =>
                (Len(outcomes) = Len(started) /\ Len(started') = Len(started) + 1)
         ]_vars

\* C27 witness: the third job is running, and the two before it have returned
C27_Witness ==
    /\ bpc = "run"
    /\ Len(started) = 3
    /\ Len(outcomes) = 2

-----------------------------------------------------------------------------
(* Further properties of the memory *)

\* the selectors of the entries the history holds
SelectorsOf(h) == { h[k].selector : k \in 1..Len(h) }

\* C31 as stated: in memory.rs, has_visited(s) is true exactly when the
\* history holds an entry of selector s, whatever records and clears there
\* have been; an eviction does not forget a selector a retained entry carries.
C31_VisitedIffInHistory ==
    module = "memory" => visited_selectors = SelectorsOf(history)

\* C35 as stated: add (types.rs) completes normally for every max_entries,
\* 0 on an empty history included, and leaves at most max_entries entries.
C35_AddNeverAborts ==
    module = "types" => (~panicked /\ Len(history) <= max_entries)

\* C36 as stated: the memory from_json (types.rs) makes of the document that
\* to_json wrote has the max_entries of the memory that wrote it.
C36_RestoreKeepsCapacity ==
    [][ (/\ module = "types"
         /\ returned'.op = "from_json" /\ returned'.ok
         /\ exported.some /\ json' = json) => max_entries' = max_entries ]_vars

-----------------------------------------------------------------------------
(* Further properties of the negotiation *)

\* the step in which a completion call returns with a failure of the service:
\* a call returns and no answer is received
ServiceFails ==
    /\ inflight' < inflight
    /\ \/ pc = "ask_label" /\ raws' = raws
       \/ pc = "infer_action" /\ ~classified'.some

\* C34: when a completion call of the classification or of the negotiation
\* fails, decide_label returns at once with the completion-service error:
\* no later attempt is made even when attempts remain, and the error is not
\* the exhausted-attempts one.
C34_ServiceErrorEndsNegotiation ==
    /\ [][ ServiceFails =>
            /\ pc' = "done"
            /\ result' = Err("LLMError", 0)
            /\ attempt' = attempt ]_vars
    /\ [][ pc = "done" => (calls' = calls /\ result' = result) ]_vars
    /\ [](result.err = "LabelResolution" => Len(raws) = LabelCalls)

\* C34 witness: the second of three allowed attempts failed in the service:
\* the negotiation ended there, with the service's error
C34_Witness ==
    /\ pc = "done"
    /\ result = Err("LLMError", 0)
    /\ max_label_attempts = 3
    /\ attempt = 1
    /\ LabelCalls = 2

\* C38: prompt_for_label sends at most max_label_attempts prompts and always
\* returns; with max_label_attempts = 0 it sends none and returns the
\* exhausted-attempts error.
C38_CountedLoopTerminates ==
    /\ [](LabelCalls <= max_label_attempts)
    /\ []((pc = "done" /\ max_label_attempts = 0 /\ filtered # <<>>) =>
            (LabelCalls = 0 /\ result = Err("LabelResolution", 0)))
    /\ <>(pc = "done")

\* C38 witness: a negotiation over one candidate with max_label_attempts = 0
\* has returned the exhausted-attempts error without a label prompt
C38_Witness ==
    /\ pc = "done"
    /\ max_label_attempts = 0
    /\ Len(filtered) = 1
    /\ LabelCalls = 0
    /\ result = Err("LabelResolution", 0)

-----------------------------------------------------------------------------
(* Further properties of tab management *)

\* the handles of the open windows
Open == { windows[k] : k \in 1..Len(windows) }

\* C32 as stated: as long as every operation has succeeded, current_tab is
\* the handle of an open window, and of the window the session is focused
\* on.
C32_CurrentTabIsFocusedWindow ==
    (tlast # "off" /\ allok) =>
        /\ current_tab.some
        /\ current_tab.v \in Open
        /\ focus = current_tab.v

\* C33 as stated: a switch_tab or close_tab that returns an error leaves
\* current_tab and the session's focused window as they were.
C33_FailedTabOperationChangesNothing ==
    [][ (tlast' \in { "switch_tab", "close_tab" } /\ ~tres'.ok) =>
            (current_tab' = current_tab /\ focus' = focus) ]_vars

-----------------------------------------------------------------------------
(* Properties of the interactive driver *)

\* C37: a submission is read by at most one poll, which resets the flag in
\* the step in which it reads the prompt; so there are never more plan calls
\* than prompts read, nor more prompts read than submissions; and after a
\* failed plan main sleeps and polls again.
C37_OneSubmissionOnePlan ==
    /\ [](nplans <= nread /\ nread <= nsub)
    /\ [][ nread' > nread => (submitted /\ ~submitted' /\ nread' = nread + 1) ]_vars
    /\ [][ nplans' > nplans => nplans' = nplans + 1 ]_vars
    /\ [][ (nplans' > nplans /\ dplan' = "Err") => dpc' = "sleep" ]_vars
    /\ [][ dpc = "sleep" => dpc' \in { "sleep", "poll" } ]_vars

\* C37 witness: the first plan failed, and main has polled again and read a
\* second submission, which is now on its way to its own plan call
C37_Witness ==
    /\ dplan = "Err"
    /\ nplans = 1
    /\ nsub = 2
    /\ nread = 2
    /\ dpc = "plan"
    /\ ~submitted
====
